---- MODULE Spec2Model ----
(***************************************************************************)
(* Model of the numeric core of nba_scanner: strike selection, the maker   *)
(* fee and break-even functions, the orderbook readers and the moneyline   *)
(* row builder.                                                            *)
(*                                                                         *)
(* Units.  Spreads, totals and strikes are Python floats in the source;    *)
(* here they are integers counting quarter points (6.0 = 24, 6.25 = 25,    *)
(* 6.5 = 26), which are exact in binary floating point, so that distance   *)
(* ties are real ties in the source too.  Probabilities are integers       *)
(* counting 1e-5 (0.56432 = 56432).  An Optional value is the empty        *)
(* sequence (None) or a one-element sequence.                              *)
(***************************************************************************)
EXTENDS Integers, Sequences, FiniteSets, TLC

VARIABLES
    sel_in,     \* arguments of a strike-selector call
    sel_out,    \* the selector that was called and what it returned
    fee_in,     \* argument of a fee / break-even call
    fee_out,    \* the function that was called and what it returned
    book,       \* what fetch_orderbook returns for the market
    ob_cache,   \* orderbook_snapshot._orderbook_cache
    ob_call,    \* the orderbook reader that was called and what it returned
    rows_in,    \* the games and what the exchange answers for their event
    rows_out,   \* the row builder that was called and what it returned
    cache_unabated,     \* refresh_server.cache_unabated
    cache_event_probs,  \* refresh_server.cache_event_probs
    odds_in,    \* the odds or the price a conversion starts from
    odds_out,   \* the conversions made so far, each on the result of the last
    lines_in,   \* today's games and what the feeds answer for each of them
    lines_out,  \* the spreads / totals builder that was called and its rows
    match_in,   \* the spread markets and the two teams of a matching call
    match_out,  \* what match_spread_markets_to_teams returned
    objects,   \* the argument objects and module state that concurrent core calls share
    calls,  \* each thread's core call: its position, its locals and its result
    current_moneyline_rows,   \* refresh_server.current_moneyline_rows
    requests   \* each refresh request of the server: its position and its locals

selVars == <<sel_in, sel_out>>

feeVars == <<fee_in, fee_out>>

bookVars == <<book, ob_cache, ob_call>>

rowVars == <<rows_in, rows_out, cache_unabated, cache_event_probs>>

oddsVars == <<odds_in, odds_out>>

lineVars == <<lines_in, lines_out>>

matchVars == <<match_in, match_out>>

pureVars == <<objects, calls>>

serverVars == <<current_moneyline_rows, requests>>

vars == <<sel_in, sel_out, fee_in, fee_out, book, ob_cache, ob_call,
          rows_in, rows_out, cache_unabated, cache_event_probs,
          odds_in, odds_out, lines_in, lines_out,
          match_in, match_out,
          objects, calls,
          current_moneyline_rows, requests>>

----------------------------------------------------------------------------
(* Optional values and small helpers *)

None == <<>>

Some(x) == <<x>>

Val(o) == o[1]

NoCode == "None"

Abs(x) == IF x < 0 THEN -x ELSE x

Min(a, b) == IF a <= b THEN a ELSE b

Idle == [op |-> "idle"]

\* the state of a component that a specification does not exercise
SelIdle == sel_in = Idle /\ sel_out = Idle

FeeIdle == fee_in = Idle /\ fee_out = Idle

BookIdle == book = Idle /\ ob_cache = Idle /\ ob_call = Idle

RowIdle ==
    /\ rows_in = Idle /\ rows_out = Idle
    /\ cache_unabated = Idle /\ cache_event_probs = Idle

OddsIdle == odds_in = Idle /\ odds_out = Idle

LinesIdle == lines_in = Idle /\ lines_out = Idle

MatchIdle == match_in = Idle /\ match_out = Idle

PureIdle == objects = Idle /\ calls = Idle

ServerIdle == current_moneyline_rows = Idle /\ requests = Idle

----------------------------------------------------------------------------
(* Strike selection: spreads/builder.py, totals/builder.py,                *)
(* nba_spreads_dashboard.py                                                *)

\* markets_with_distance: the (distance, strike, market) tuples of the
\* candidates that have a parsed strike, in candidate order
RECURSIVE markets_with_distance(_, _)
markets_with_distance(candidate_markets, target) ==
    IF candidate_markets = <<>> THEN <<>>
    ELSE LET market == Head(candidate_markets)
             strike == market.parsed_strike
             rest   == markets_with_distance(Tail(candidate_markets), target)
         IN IF strike = None THEN rest
            ELSE << <<Abs(Val(strike) - target), Val(strike), market>> >> \o rest

\* a mutant of sort_key_less: on equal distance the higher strike sorts first
sort_key_less_higher_first(x, y) ==
    x[1] < y[1] \/ (x[1] = y[1] /\ x[2] > y[2])

\* key=lambda x: (x[0], x[1]): tuple comparison of (distance, strike)
sort_key_less(x, y) ==
    x[1] < y[1] \/ (x[1] = y[1] /\ x[2] < y[2])

RECURSIVE sort_insert(_, _)
sort_insert(e, s) ==
    IF s = <<>> THEN <<e>>
    ELSE IF sort_key_less(e, Head(s)) THEN <<e>> \o s
    ELSE <<Head(s)>> \o sort_insert(e, Tail(s))

\* list.sort(key=...): ascending and stable (equal keys keep list order)
RECURSIVE sort_by_distance(_)
sort_by_distance(s) ==
    IF s = <<>> THEN <<>>
    ELSE sort_insert(s[Len(s)], sort_by_distance(SubSeq(s, 1, Len(s) - 1)))

\* a mutant of select_closest_strikes_for_team_spread: the underdog branch
\* keeps the team's own market
select_for_team_spread_own_market(team_spread, team_code, opponent_code, spread_markets, count) ==
    LET abs_spread == Abs(team_spread)
        side_to_trade == IF team_spread < 0 THEN "YES" ELSE "NO"
        candidate_markets ==
            SelectSeq(spread_markets, LAMBDA m : m.market_team_code = team_code)
        sorted == sort_by_distance(markets_with_distance(candidate_markets, abs_spread))
    IN [i \in 1..Min(count, Len(sorted)) |-> <<sorted[i][3], side_to_trade>>]

select_closest_strikes_for_team_spread(team_spread, team_code, opponent_code, spread_markets, count) ==
    LET abs_spread == Abs(team_spread)
        target_market_team_code ==
            IF team_spread < 0 THEN team_code ELSE opponent_code
        side_to_trade == IF team_spread < 0 THEN "YES" ELSE "NO"
        candidate_markets ==
            SelectSeq(spread_markets,
                      LAMBDA m : m.market_team_code = target_market_team_code)
        sorted == sort_by_distance(markets_with_distance(candidate_markets, abs_spread))
    IN [i \in 1..Min(count, Len(sorted)) |-> <<sorted[i][3], side_to_trade>>]

\* over_markets of select_closest_over_strikes: the markets whose direction
\* is "over", or every market when none is
over_markets(available_markets) ==
    LET overs == SelectSeq(available_markets, LAMBDA m : m.direction = "over")
    IN IF overs = <<>> THEN available_markets ELSE overs

select_closest_over_strikes(canonical_total, available_markets, count) ==
    LET sorted == sort_by_distance(
                      markets_with_distance(over_markets(available_markets),
                                            canonical_total))
    IN [i \in 1..Min(count, Len(sorted)) |-> sorted[i][3]]

\* a mutant of select_closest_strikes: the slice [:count] is dropped
select_closest_strikes_all(canonical_spread, available_markets, count) ==
    LET sorted == sort_by_distance(
                      markets_with_distance(available_markets, Abs(canonical_spread)))
    IN [i \in 1..Len(sorted) |-> sorted[i][3]]

select_closest_strikes(canonical_spread, available_markets, count) ==
    LET sorted == sort_by_distance(
                      markets_with_distance(available_markets, Abs(canonical_spread)))
    IN [i \in 1..Min(count, Len(sorted)) |-> sorted[i][3]]

----------------------------------------------------------------------------
(* Inputs of the strike selectors *)

MaxMarkets == 3

MaxCount == 2

TeamA == "AAA"

TeamB == "BBB"

\* 6.0, 6.5, 7.0 and a market whose strike is None
Strikes == {None, Some(24), Some(26), Some(28)}

\* -6.25, 0, +4.5, +6.25 as a spread; the absolute values also serve as totals
Spreads == {-25, 0, 18, 25}

SpreadMarketBodies ==
    [parsed_strike : Strikes, market_team_code : {TeamA, TeamB, NoCode},
     direction : {"over"}]

TotalMarketBodies ==
    [parsed_strike : Strikes, market_team_code : {NoCode},
     direction : {"over", "under"}]

\* market lists: the i-th market has ticker i
MarketLists(bodies) ==
    UNION { { [i \in 1..n |-> [ticker |-> i,
                               parsed_strike |-> f[i].parsed_strike,
                               market_team_code |-> f[i].market_team_code,
                               direction |-> f[i].direction]] :
              f \in [1..n -> bodies] } : n \in 0..MaxMarkets }

SelectInputs(max_count) ==
    [team_spread : Spreads, team_code : {TeamA}, opponent_code : {TeamB},
     markets : MarketLists(SpreadMarketBodies) \cup MarketLists(TotalMarketBodies),
     count : 1..max_count]

InitSelect ==
    /\ sel_in \in SelectInputs(MaxCount)
    /\ sel_out = Idle
    /\ FeeIdle /\ BookIdle /\ RowIdle /\ OddsIdle /\ LinesIdle /\ MatchIdle /\ PureIdle /\ ServerIdle

SelectForTeamSpread ==
    /\ sel_out = Idle
    /\ sel_out' = [op |-> "select_closest_strikes_for_team_spread",
                   result |-> select_closest_strikes_for_team_spread(
                                  sel_in.team_spread, sel_in.team_code,
                                  sel_in.opponent_code, sel_in.markets,
                                  sel_in.count)]
    /\ UNCHANGED <<sel_in, feeVars, bookVars, rowVars, oddsVars, lineVars, matchVars, pureVars, serverVars>>

SelectOverStrikes ==
    /\ sel_out = Idle
    /\ sel_out' = [op |-> "select_closest_over_strikes",
                   result |-> select_closest_over_strikes(
                                  Abs(sel_in.team_spread), sel_in.markets,
                                  sel_in.count)]
    /\ UNCHANGED <<sel_in, feeVars, bookVars, rowVars, oddsVars, lineVars, matchVars, pureVars, serverVars>>

SelectStrikes ==
    /\ sel_out = Idle
    /\ sel_out' = [op |-> "select_closest_strikes",
                   result |-> select_closest_strikes(
                                  sel_in.team_spread, sel_in.markets,
                                  sel_in.count)]
    /\ UNCHANGED <<sel_in, feeVars, bookVars, rowVars, oddsVars, lineVars, matchVars, pureVars, serverVars>>

NextSelect == SelectForTeamSpread \/ SelectOverStrikes \/ SelectStrikes

SpecSelect == InitSelect /\ [][NextSelect]_vars

----------------------------------------------------------------------------
(* Properties of the strike selectors (checked under SpecSelect) *)

SelDone == sel_out.op # "idle"

\* the markets a selector returned, without the side of the spread selector
ResultMarkets ==
    IF sel_out.op = "select_closest_strikes_for_team_spread"
    THEN [i \in 1..Len(sel_out.result) |-> sel_out.result[i][1]]
    ELSE sel_out.result

InputMarkets == {sel_in.markets[i] : i \in 1..Len(sel_in.markets)}

SelTarget == Abs(sel_in.team_spread)

\* the candidates of the call that was made, whether or not they have a strike
Candidates ==
    IF sel_out.op = "select_closest_strikes_for_team_spread"
    THEN {m \in InputMarkets :
            m.market_team_code = IF sel_in.team_spread < 0
                                 THEN sel_in.team_code ELSE sel_in.opponent_code}
    ELSE IF sel_out.op = "select_closest_over_strikes"
    THEN IF \E m \in InputMarkets : m.direction = "over"
         THEN {m \in InputMarkets : m.direction = "over"}
         ELSE InputMarkets
    ELSE InputMarkets

Eligible == {m \in Candidates : m.parsed_strike # None}

Distance(m) == Abs(Val(m.parsed_strike) - SelTarget)

\* (distance, strike) of a is not after that of b
KeyLeq(a, b) ==
    \/ Distance(a) < Distance(b)
    \/ Distance(a) = Distance(b) /\ Val(a.parsed_strike) <= Val(b.parsed_strike)

\* C1: select_closest_strikes_for_team_spread routes by the sign of the
\* spread: for a negative spread every returned pair is a market of team_code
\* with side YES, for a positive spread every returned pair is a market of
\* opponent_code with side NO.
C1_SpreadRouting ==
    sel_out.op = "select_closest_strikes_for_team_spread" =>
        \A i \in 1..Len(sel_out.result) :
            /\ sel_in.team_spread < 0 =>
                   /\ sel_out.result[i][1].market_team_code = sel_in.team_code
                   /\ sel_out.result[i][2] = "YES"
            /\ sel_in.team_spread > 0 =>
                   /\ sel_out.result[i][1].market_team_code = sel_in.opponent_code
                   /\ sel_out.result[i][2] = "NO"

\* spread +4.5 for team A, with markets of both teams on offer: only B's
\* market comes back
C1_Witness ==
    /\ sel_out.op = "select_closest_strikes_for_team_spread"
    /\ sel_in.team_spread = 18
    /\ \E m \in InputMarkets : m.market_team_code = TeamA /\ m.parsed_strike # None
    /\ Len(sel_out.result) = 1
    /\ sel_out.result[1][1].market_team_code = TeamB
    /\ sel_out.result[1][2] = "NO"

\* C2: a selector returns the eligible candidates in ascending order of
\* (|strike - target|, strike), cut to the first `count`: the result has
\* min(count, number of eligible) distinct eligible markets, is ordered by
\* that key, and no eligible market left out sorts before a returned one.
C2_OrderedAndTruncated ==
    SelDone =>
        LET R == ResultMarkets IN
        /\ Len(R) = Min(sel_in.count, Cardinality(Eligible))
        /\ \A i \in 1..Len(R) : R[i] \in Eligible
        /\ \A i, j \in 1..Len(R) : i < j => R[i] # R[j] /\ KeyLeq(R[i], R[j])
        /\ \A i, j \in 1..Len(R) :
               (i < j /\ Distance(R[i]) = Distance(R[j])) =>
                   Val(R[i].parsed_strike) <= Val(R[j].parsed_strike)
        /\ \A e \in Eligible :
               (\A i \in 1..Len(R) : R[i] # e) =>
                   \A i \in 1..Len(R) : KeyLeq(R[i], e)

\* strikes [6.0, 6.5, 7.0] listed highest first, target 6.25, count 2: the
\* result is 6.0 then 6.5
C2_Witness ==
    /\ SelDone
    /\ SelTarget = 25
    /\ sel_in.count = 2
    /\ Len(sel_in.markets) = 3
    /\ [i \in 1..3 |-> sel_in.markets[i].parsed_strike] = <<Some(28), Some(26), Some(24)>>
    /\ Cardinality(Eligible) = 3
    /\ [i \in 1..Len(ResultMarkets) |-> ResultMarkets[i].ticker] = <<3, 2>>

\* C3: a selector never fabricates a strike: every returned market is one
\* of the input markets and has a parsed strike, at most `count` markets
\* come back, and with no candidate, or no candidate with a parsed strike,
\* the result is the empty list.
C3_NoFabricatedStrike ==
    SelDone =>
        LET R == ResultMarkets IN
        /\ \A i \in 1..Len(R) : R[i] \in InputMarkets /\ R[i].parsed_strike # None
        /\ Len(R) <= sel_in.count
        /\ (Candidates = {} \/ \A m \in Candidates : m.parsed_strike = None) =>
               R = <<>>

\* more eligible markets than `count`, and candidates without a strike
C3_Witness ==
    /\ sel_out.op = "select_closest_strikes"
    /\ sel_in.count = 1
    /\ Cardinality(Eligible) = 2
    /\ \E m \in Candidates : m.parsed_strike = None
    /\ Len(ResultMarkets) = 1

\* candidates exist but none has a strike: the empty list
C3_WitnessEmpty ==
    /\ sel_out.op = "select_closest_strikes_for_team_spread"
    /\ Candidates # {}
    /\ Eligible = {}
    /\ sel_out.result = <<>>

\* C29: every market that select_closest_over_strikes returns is an Over
\* market; a market labelled "under" is never selected, whatever the input
\* list.
C29_OnlyOverSelected ==
    sel_out.op = "select_closest_over_strikes" =>
        \A i \in 1..Len(sel_out.result) : sel_out.result[i].direction = "over"

----------------------------------------------------------------------------
(* Fee model: pricing/fees.py, data_build/top_of_book.py,                  *)
(* kalshi_top_of_book_probs.py                                             *)

\* math.ceil(n / d) for d > 0
CeilDiv(n, d) == -((-n) \div d)

\* The source computes 0.0175 * contracts * P * (1.0 - P) * 100.0 in IEEE
\* doubles.  Where the exact product is not a whole number it is at least
\* 1e-6 away from one, far more than the rounding error, and math.ceil gives
\* the exact ceiling.  Where the exact product is a whole number of cents
\* the double can come out just above it, and math.ceil then gives one cent
\* more.  With the contract counts of ContractCounts and the prices -8..108
\* this happens (CPython, IEEE 754 binary64) exactly at 100 contracts and
\* prices 20, 40, 60 and 80: 28.000000000000004 and 42.00000000000001.
FloatAboveInteger(price_cents, contracts) ==
    contracts = 100 /\ price_cents \in {20, 40, 60, 80}

\* a mutant of maker_fee_cents: the ceiling of the fee in dollars
maker_fee_cents_ceil_of_dollars(price_cents, contracts) ==
    CeilDiv(175 * contracts * price_cents * (100 - price_cents), 100000000)

\* a mutant of maker_fee_cents: the fee per contract instead of the total
maker_fee_cents_per_contract(price_cents, contracts) ==
    CeilDiv(175 * contracts * price_cents * (100 - price_cents), 1000000)
        \div contracts

\* a mutant of maker_fee_cents: P * P in place of P * (1 - P)
maker_fee_cents_p_squared(price_cents, contracts) ==
    CeilDiv(175 * contracts * price_cents * price_cents, 1000000)

\* ceil(0.0175 * contracts * P * (1 - P) * 100) with P = price_cents / 100,
\* that is ceil(175 * contracts * price * (100 - price) / 10^6), and what
\* the doubles add to it
maker_fee_cents(price_cents, contracts) ==
    CeilDiv(175 * contracts * price_cents * (100 - price_cents), 1000000)
        + (IF FloatAboveInteger(price_cents, contracts) THEN 1 ELSE 0)

\* the loop of adjust_maker_price_for_fees: downward from post_price to 1,
\* the first price whose effective price is within the limit
RECURSIVE highest_post_price(_, _)
highest_post_price(post_price, limit_price_cents) ==
    IF post_price < 1 THEN None
    ELSE IF post_price + maker_fee_cents(post_price, 1) <= limit_price_cents
    THEN Some(post_price)
    ELSE highest_post_price(post_price - 1, limit_price_cents)

adjust_maker_price_for_fees(limit_price_cents) ==
    IF limit_price_cents <= 2 THEN None
    ELSE highest_post_price(limit_price_cents - 1, limit_price_cents)

\* C = 1000 in yes_break_even_prob and no_break_even_prob
ReferenceContracts == 1000

\* one probability unit of the model: 1e-5
ProbOne == 100000

\* a mutant of yes_break_even_prob: the price guard lets the two boundary
\* prices 0 and 100 through
yes_break_even_prob_open_guard(yes_px_cents) ==
    IF yes_px_cents < 0 \/ yes_px_cents > 100 THEN None
    ELSE LET fee_total_cents == maker_fee_cents(yes_px_cents, ReferenceContracts)
             p_win_be == yes_px_cents * 1000 + fee_total_cents
         IN IF p_win_be < 0 THEN Some(0)
            ELSE IF p_win_be > ProbOne THEN Some(ProbOne)
            ELSE Some(p_win_be)

\* a mutant of no_break_even_prob: returns after_fee_cents, the value before
\* the division by 100, instead of the clamped probability
no_break_even_prob_returns_cents(no_px_cents) ==
    IF no_px_cents <= 0 \/ no_px_cents >= 100 THEN None
    ELSE LET fee_total_cents == maker_fee_cents(no_px_cents, ReferenceContracts)
             p_no_win_be == no_px_cents * 1000 + fee_total_cents
         IN IF p_no_win_be < 0 THEN Some(0)
            ELSE IF p_no_win_be > ProbOne THEN Some(ProbOne)
            ELSE Some(p_no_win_be * 100)

\* after_fee_cents = price + fee_total / 1000 cents, p_win_be = after_fee / 100:
\* in units of 1e-5 that is price * 1000 + fee_total
yes_break_even_prob(yes_px_cents) ==
    IF yes_px_cents <= 0 \/ yes_px_cents >= 100 THEN None
    ELSE LET fee_total_cents == maker_fee_cents(yes_px_cents, ReferenceContracts)
             p_win_be == yes_px_cents * 1000 + fee_total_cents
         IN IF p_win_be < 0 THEN Some(0)
            ELSE IF p_win_be > ProbOne THEN Some(ProbOne)
            ELSE Some(p_win_be)

no_break_even_prob(no_px_cents) ==
    IF no_px_cents <= 0 \/ no_px_cents >= 100 THEN None
    ELSE LET fee_total_cents == maker_fee_cents(no_px_cents, ReferenceContracts)
             p_no_win_be == no_px_cents * 1000 + fee_total_cents
         IN IF p_no_win_be < 0 THEN Some(0)
            ELSE IF p_no_win_be > ProbOne THEN Some(ProbOne)
            ELSE Some(p_no_win_be)

\* p / (1 - fee_on_win) = price_cents / (100 - fee_on_win_cents), kept as a
\* fraction num / den
maker_post_break_even_prob(price_cents) ==
    IF price_cents <= 0 \/ price_cents >= 100 THEN None
    ELSE LET fee_on_win_cents == maker_fee_cents(price_cents, 1)
         IN IF fee_on_win_cents >= 100 THEN None
            ELSE IF price_cents < 0 THEN Some([num |-> 0, den |-> 1])
            ELSE IF price_cents > 100 - fee_on_win_cents
                 THEN Some([num |-> 1, den |-> 1])
            ELSE Some([num |-> price_cents, den |-> 100 - fee_on_win_cents])

\* prices tried: the valid range 1..99 and PriceSlack prices on either side
PriceSlack == 3

FeeInputs == [price_cents : (0 - PriceSlack)..(100 + PriceSlack)]

InitFees ==
    /\ fee_in \in FeeInputs
    /\ fee_out = Idle
    /\ SelIdle /\ BookIdle /\ RowIdle /\ OddsIdle /\ LinesIdle /\ MatchIdle /\ PureIdle /\ ServerIdle

YesBreakEvenProb ==
    /\ fee_out = Idle
    /\ fee_out' = [op |-> "yes_break_even_prob",
                   result |-> yes_break_even_prob(fee_in.price_cents)]
    /\ UNCHANGED <<fee_in, selVars, bookVars, rowVars, oddsVars, lineVars, matchVars, pureVars, serverVars>>

NoBreakEvenProb ==
    /\ fee_out = Idle
    /\ fee_out' = [op |-> "no_break_even_prob",
                   result |-> no_break_even_prob(fee_in.price_cents)]
    /\ UNCHANGED <<fee_in, selVars, bookVars, rowVars, oddsVars, lineVars, matchVars, pureVars, serverVars>>

MakerPostBreakEvenProb ==
    /\ fee_out = Idle
    /\ fee_out' = [op |-> "maker_post_break_even_prob",
                   result |-> maker_post_break_even_prob(fee_in.price_cents)]
    /\ UNCHANGED <<fee_in, selVars, bookVars, rowVars, oddsVars, lineVars, matchVars, pureVars, serverVars>>

\* contract counts handed to maker_fee_cents: the default 1, the reference
\* lot of 1000, and counts around 100
ContractCounts == {1, 2, 99, 100, 101, 1000}

MakerFeeCents ==
    /\ fee_out = Idle
    /\ \E contracts \in ContractCounts :
           fee_out' = [op |-> "maker_fee_cents", contracts |-> contracts,
                       result |-> maker_fee_cents(fee_in.price_cents, contracts)]
    /\ UNCHANGED <<fee_in, selVars, bookVars, rowVars, oddsVars, lineVars, matchVars, pureVars, serverVars>>

\* adjust_maker_price_for_fees on the price as the limit
AdjustMakerPriceForFees ==
    /\ fee_out = Idle
    /\ fee_out' = [op |-> "adjust_maker_price_for_fees",
                   result |-> adjust_maker_price_for_fees(fee_in.price_cents)]
    /\ UNCHANGED <<fee_in, selVars, bookVars, rowVars, oddsVars, lineVars, matchVars, pureVars, serverVars>>

NextFees ==
    \/ YesBreakEvenProb \/ NoBreakEvenProb \/ MakerPostBreakEvenProb \/ MakerFeeCents
    \/ AdjustMakerPriceForFees

SpecFees == InitFees /\ [][NextFees]_vars

BreakEvenOps ==
    {"yes_break_even_prob", "no_break_even_prob", "maker_post_break_even_prob"}

\* C4: for every price 0 < p < 100, yes_break_even_prob(p) and
\* no_break_even_prob(p) return a probability in the closed interval [0, 1].
C4_BreakEvenInUnitInterval ==
    (/\ fee_out.op \in {"yes_break_even_prob", "no_break_even_prob"}
     /\ 0 < fee_in.price_cents /\ fee_in.price_cents < 100) =>
        /\ fee_out.result # None
        /\ 0 <= Val(fee_out.result) /\ Val(fee_out.result) <= ProbOne

\* the highest valid price, 99 cents: 0.99018
C4_Witness ==
    /\ fee_out.op = "no_break_even_prob"
    /\ fee_in.price_cents = 99
    /\ fee_out.result = Some(99018)

\* C5: for every price p <= 0 or p >= 100 the three break-even functions
\* return None.
C5_InvalidPriceGivesNone ==
    (/\ fee_out.op \in BreakEvenOps
     /\ (fee_in.price_cents <= 0 \/ fee_in.price_cents >= 100)) =>
        fee_out.result = None

\* the boundary price 100 handed to yes_break_even_prob
C5_Witness ==
    /\ fee_out.op = "yes_break_even_prob"
    /\ fee_in.price_cents = 100
    /\ fee_out.result = None

\* C12 as stated: at 56 cents the maker fee on the 1000-contract lot is 5
\* cents in total and yes_break_even_prob(56) is (56 + 0.005) / 100 = 0.56005.
C12_WorkedExampleAsStated ==
    /\ (/\ fee_out.op = "maker_fee_cents" /\ fee_in.price_cents = 56
        /\ fee_out.contracts = ReferenceContracts) => fee_out.result = 5
    /\ (fee_out.op = "yes_break_even_prob" /\ fee_in.price_cents = 56) =>
           fee_out.result = Some(56005)

\* C12 (amended): at 56 cents the maker fee on the 1000-contract lot is
\* ceil(431.2) = 432 cents in total, the per-contract fee is 0.432 cents and
\* yes_break_even_prob(56) = (56 + 0.432) / 100 = 0.56432.
C12_WorkedExample ==
    /\ (/\ fee_out.op = "maker_fee_cents" /\ fee_in.price_cents = 56
        /\ fee_out.contracts = ReferenceContracts) => fee_out.result = 432
    /\ (fee_out.op = "yes_break_even_prob" /\ fee_in.price_cents = 56) =>
           /\ fee_out.result = Some(56432)
           /\ Val(fee_out.result) - 56 * 1000 = 432

C12_Witness ==
    /\ fee_out.op = "yes_break_even_prob"
    /\ fee_in.price_cents = 56
    /\ fee_out.result = Some(56432)

\* C13: for a price in 1..99, the fee for a contract count is at most the
\* fee for every larger contract count.
C13_FeeNonDecreasingInContracts ==
    (fee_out.op = "maker_fee_cents" /\ fee_in.price_cents \in 1..99) =>
        \A c2 \in ContractCounts :
            fee_out.contracts <= c2 =>
                fee_out.result <= maker_fee_cents(fee_in.price_cents, c2)

\* 99 contracts at 20 cents cost 28 cents, 100 and 101 contracts 29 cents
C13_Witness ==
    /\ fee_out.op = "maker_fee_cents"
    /\ fee_in.price_cents = 20
    /\ fee_out.contracts = 99
    /\ fee_out.result = 28
    /\ maker_fee_cents(20, 100) = 29
    /\ maker_fee_cents(20, 101) = 29

\* C14 as stated: for a contract count the fee over the prices 1..99 is
\* largest at 50 and decreases with every cent away from 50.
C14_FeeDecreasesFrom50 ==
    (fee_out.op = "maker_fee_cents" /\ fee_in.price_cents \in 1..99) =>
        LET p == fee_in.price_cents
            c == fee_out.contracts
        IN /\ fee_out.result <= maker_fee_cents(50, c)
           /\ p < 50 => fee_out.result < maker_fee_cents(p + 1, c)
           /\ p > 50 => fee_out.result < maker_fee_cents(p - 1, c)

\* C14 (amended): for a contract count the fee over the prices 1..99 is
\* largest at 50 and does not increase with any cent away from 50 (the
\* ceiling makes plateaus: one contract costs 1 cent at every price).
C14_FeeMaximalAt50 ==
    (fee_out.op = "maker_fee_cents" /\ fee_in.price_cents \in 1..99) =>
        LET p == fee_in.price_cents
            c == fee_out.contracts
        IN /\ fee_out.result <= maker_fee_cents(50, c)
           /\ p < 50 => fee_out.result <= maker_fee_cents(p + 1, c)
           /\ p > 50 => fee_out.result <= maker_fee_cents(p - 1, c)

\* 100 contracts at 40 cents cost 43 cents, at 41 cents 43, at 50 cents 44
C14_Witness ==
    /\ fee_out.op = "maker_fee_cents"
    /\ fee_in.price_cents = 40
    /\ fee_out.contracts = 100
    /\ fee_out.result = 43
    /\ maker_fee_cents(41, 100) = 43
    /\ maker_fee_cents(50, 100) = 44

\* the post prices below the limit whose price plus maker fee on one
\* contract is within the limit
ValidPostPrices(limit_price_cents) ==
    {post_price \in 1..(limit_price_cents - 1) :
        post_price + maker_fee_cents(post_price, 1) <= limit_price_cents}

\* C30: adjust_maker_price_for_fees(limit) returns the highest post price p
\* in 1..limit-1 with p + maker_fee_cents(p, 1) <= limit, and None only when
\* there is no such price.
C30_HighestValidPostPrice ==
    fee_out.op = "adjust_maker_price_for_fees" =>
        IF ValidPostPrices(fee_in.price_cents) = {}
        THEN fee_out.result = None
        ELSE /\ fee_out.result # None
             /\ Val(fee_out.result) \in ValidPostPrices(fee_in.price_cents)
             /\ \A post_price \in ValidPostPrices(fee_in.price_cents) :
                    post_price <= Val(fee_out.result)

----------------------------------------------------------------------------
(* Orderbook readers: data_build/top_of_book.py, spreads/builder.py,        *)
(* data_build/orderbook_snapshot.py, core/reusable_functions.py            *)
(*                                                                         *)
(* A ladder is a sequence of bids, a bid a sequence <<price, qty>>.  What  *)
(* fetch_orderbook returns is None here when it is falsy in the source     *)
(* (None or {}), else Some([yes |-> ladder, no |-> ladder]); a key that is *)
(* missing or None is the empty ladder (orderbook.get(key) or []).         *)

NoError == "None"

\* str.upper() on the strings of the model
Upper(str) ==
    CASE str = "yes" -> "YES"
      [] str = "no"  -> "NO"
      [] str = "kxa" -> "KXA"
      [] OTHER       -> str

\* dict[key] = value on a dict kept as a function
DictPut(dict, key, value) ==
    [k \in (DOMAIN dict) \cup {key} |-> IF k = key THEN value ELSE dict[k]]

\* isinstance(x, list): a Python list is a sequence here, and a value that
\* is not a list (a dict) a function whose domain is not 1..n
IsList(x) == DOMAIN x = 1..Cardinality(DOMAIN x)

\* a mutant of scan_bids: the loop ends at the first entry that is not a
\* list of two fields
RECURSIVE scan_bids_until_malformed(_, _, _)
scan_bids_until_malformed(bids, top_c, by_price) ==
    IF bids = <<>> THEN <<top_c, by_price>>
    ELSE LET bid == Head(bids) IN
         IF IsList(bid) /\ Len(bid) >= 2
         THEN LET price_cents == bid[1]
                  qty == bid[2]
                  new_top == IF top_c = None \/ price_cents > Val(top_c)
                             THEN Some(price_cents) ELSE top_c
                  new_by == IF price_cents \in DOMAIN by_price
                            THEN [by_price EXCEPT ![price_cents] = @ + qty]
                            ELSE DictPut(by_price, price_cents, qty)
              IN scan_bids_until_malformed(Tail(bids), new_top, new_by)
         ELSE <<top_c, by_price>>

\* a mutant of scan_bids: a repeated price overwrites the quantity seen before
RECURSIVE scan_bids_last_seen(_, _, _)
scan_bids_last_seen(bids, top_c, by_price) ==
    IF bids = <<>> THEN <<top_c, by_price>>
    ELSE LET bid == Head(bids) IN
         IF IsList(bid) /\ Len(bid) >= 2
         THEN LET price_cents == bid[1]
                  qty == bid[2]
                  new_top == IF top_c = None \/ price_cents > Val(top_c)
                             THEN Some(price_cents) ELSE top_c
              IN scan_bids_last_seen(Tail(bids), new_top,
                                     DictPut(by_price, price_cents, qty))
         ELSE scan_bids_last_seen(Tail(bids), top_c, by_price)

\* the loop `for bid in yes_bids` / `for bid in no_bids`: the maximum price
\* seen and the quantities added up by price; an entry that is not a list
\* or has fewer than two fields is skipped
RECURSIVE scan_bids(_, _, _)
scan_bids(bids, top_c, by_price) ==
    IF bids = <<>> THEN <<top_c, by_price>>
    ELSE LET bid == Head(bids) IN
         IF IsList(bid) /\ Len(bid) >= 2
         THEN LET price_cents == bid[1]
                  qty == bid[2]
                  new_top == IF top_c = None \/ price_cents > Val(top_c)
                             THEN Some(price_cents) ELSE top_c
                  new_by == IF price_cents \in DOMAIN by_price
                            THEN [by_price EXCEPT ![price_cents] = @ + qty]
                            ELSE DictPut(by_price, price_cents, qty)
              IN scan_bids(Tail(bids), new_top, new_by)
         ELSE scan_bids(Tail(bids), top_c, by_price)

\* dict.get(key, 0)
DictGet0(dict, key) == IF key \in DOMAIN dict THEN dict[key] ELSE 0

get_yes_bid_top_and_liquidity(orderbook) ==
    LET yes_bids == orderbook.yes IN
    IF yes_bids = <<>> \/ ~IsList(yes_bids) THEN <<None, None, <<>> >>
    ELSE LET scanned == scan_bids(yes_bids, None, <<>>)
             yes_bid_top_c == scanned[1]
             yes_bid_top_liq ==
                 IF yes_bid_top_c # None
                 THEN Some(DictGet0(scanned[2], Val(yes_bid_top_c))) ELSE None
         IN <<yes_bid_top_c, yes_bid_top_liq, scanned[2]>>

\* the same function is defined in top_of_book.py, orderbook_snapshot.py and
\* spreads/builder.py, with the same body
get_no_bid_top_and_liquidity(orderbook) ==
    LET no_bids == orderbook.no IN
    IF no_bids = <<>> \/ ~IsList(no_bids) THEN <<None, None, <<>> >>
    ELSE LET scanned == scan_bids(no_bids, None, <<>>)
             no_bid_top_c == scanned[1]
             no_bid_top_liq ==
                 IF no_bid_top_c # None
                 THEN Some(DictGet0(scanned[2], Val(no_bid_top_c))) ELSE None
         IN <<no_bid_top_c, no_bid_top_liq, scanned[2]>>

\* the loop of get_yes_ask_prices_and_liquidity: the maximum price seen, the
\* quantity of the entry that set it, and the quantities added up by price
RECURSIVE scan_no_bids(_, _, _, _)
scan_no_bids(bids, max_price, max_qty, by_price) ==
    IF bids = <<>> THEN <<max_price, max_qty, by_price>>
    ELSE LET bid == Head(bids) IN
         IF IsList(bid) /\ Len(bid) >= 2
         THEN LET price == bid[1]
                  qty == bid[2]
                  higher == max_price = None \/ price > Val(max_price)
                  new_by == IF price \in DOMAIN by_price
                            THEN [by_price EXCEPT ![price] = @ + qty]
                            ELSE DictPut(by_price, price, qty)
              IN scan_no_bids(Tail(bids),
                              IF higher THEN Some(price) ELSE max_price,
                              IF higher THEN Some(qty) ELSE max_qty, new_by)
         ELSE scan_no_bids(Tail(bids), max_price, max_qty, by_price)

\* kalshi_top_of_book_probs.get_yes_ask_prices_and_liquidity:
\* (best_yes_ask_cents, inside_yes_ask_cents, best_ask_liq, inside_ask_liq).
\* `if max_no_bid_price` is false for a price of 0.
get_yes_ask_prices_and_liquidity(orderbook) ==
    LET no_bids == orderbook.no IN
    IF no_bids = <<>> \/ ~IsList(no_bids) THEN <<None, None, None, None>>
    ELSE LET scanned == scan_no_bids(no_bids, None, None, <<>>)
             max_no_bid_price == scanned[1]
             no_bids_by_price == scanned[3]
         IN IF max_no_bid_price = None THEN <<None, None, None, None>>
            ELSE LET best_yes_ask_cents == 100 - Val(max_no_bid_price)
                     best_ask_liq ==
                         IF Val(max_no_bid_price) # 0
                         THEN Some(DictGet0(no_bids_by_price, Val(max_no_bid_price)))
                         ELSE None
                     inside_yes_ask_cents ==
                         IF best_yes_ask_cents >= 2
                         THEN Some(best_yes_ask_cents - 1) ELSE None
                     inside_ask_liq ==
                         IF inside_yes_ask_cents # None
                         THEN Some(DictGet0(no_bids_by_price,
                                            100 - Val(inside_yes_ask_cents)))
                         ELSE None
                 IN <<Some(best_yes_ask_cents), inside_yes_ask_cents,
                      best_ask_liq, inside_ask_liq>>

\* the dict that the exposure readers return when there is nothing to read
ExposureError(message) ==
    [yes_bid_top_c |-> None, yes_bid_top_p1_c |-> None,
     yes_be_top |-> None, yes_be_topm1 |-> None,
     yes_bid_top_liq |-> None, yes_bid_top_p1_liq |-> None,
     error |-> message]

get_market_yes_exposure_data(orderbook) ==
    IF orderbook = None THEN ExposureError("No orderbook")
    ELSE LET top == get_yes_bid_top_and_liquidity(Val(orderbook))
             yes_bid_top_c == top[1]
         IN IF yes_bid_top_c = None THEN ExposureError("No YES bids found")
            ELSE LET yes_bid_top_p1_c ==
                         IF Val(yes_bid_top_c) < 99
                         THEN Some(Val(yes_bid_top_c) + 1) ELSE None
                 IN [yes_bid_top_c |-> yes_bid_top_c,
                     yes_bid_top_p1_c |-> yes_bid_top_p1_c,
                     yes_be_top |-> yes_break_even_prob(Val(yes_bid_top_c)),
                     yes_be_topm1 |->
                         IF yes_bid_top_p1_c # None
                         THEN yes_break_even_prob(Val(yes_bid_top_p1_c)) ELSE None,
                     yes_bid_top_liq |-> top[2],
                     yes_bid_top_p1_liq |-> None,
                     error |-> NoError]

\* a mutant of get_market_no_exposure_data: the queue-jump guard is
\* `<= 99` instead of `< 99`
get_market_no_exposure_data_guard(orderbook) ==
    IF orderbook = None THEN ExposureError("No orderbook")
    ELSE LET top == get_no_bid_top_and_liquidity(Val(orderbook))
             no_bid_top_c == top[1]
         IN IF no_bid_top_c = None THEN ExposureError("No NO bids found")
            ELSE LET yes_bid_top_p1_c ==
                         IF Val(no_bid_top_c) <= 99
                         THEN Some(Val(no_bid_top_c) + 1) ELSE None
                 IN [yes_bid_top_c |-> no_bid_top_c,
                     yes_bid_top_p1_c |-> yes_bid_top_p1_c,
                     yes_be_top |-> no_break_even_prob(Val(no_bid_top_c)),
                     yes_be_topm1 |->
                         IF yes_bid_top_p1_c # None
                         THEN no_break_even_prob(Val(yes_bid_top_p1_c)) ELSE None,
                     yes_bid_top_liq |-> top[2],
                     yes_bid_top_p1_liq |-> None,
                     error |-> NoError]

get_market_no_exposure_data(orderbook) ==
    IF orderbook = None THEN ExposureError("No orderbook")
    ELSE LET top == get_no_bid_top_and_liquidity(Val(orderbook))
             no_bid_top_c == top[1]
         IN IF no_bid_top_c = None THEN ExposureError("No NO bids found")
            ELSE LET yes_bid_top_p1_c ==
                         IF Val(no_bid_top_c) < 99
                         THEN Some(Val(no_bid_top_c) + 1) ELSE None
                 IN [yes_bid_top_c |-> no_bid_top_c,
                     yes_bid_top_p1_c |-> yes_bid_top_p1_c,
                     yes_be_top |-> no_break_even_prob(Val(no_bid_top_c)),
                     yes_be_topm1 |->
                         IF yes_bid_top_p1_c # None
                         THEN no_break_even_prob(Val(yes_bid_top_p1_c)) ELSE None,
                     yes_bid_top_liq |-> top[2],
                     yes_bid_top_p1_liq |-> None,
                     error |-> NoError]

\* the dict that get_spread_orderbook_data returns on its early exits;
\* ask_top_c is the local variable of that name, kept to state what was
\* derived (None where the exit comes before its assignment)
SpreadDataError(message, ask_top_c) ==
    [tob_bid_cents |-> None, tob_effective_prob |-> None, tob_liq |-> None,
     tob_p1_bid_cents |-> None, tob_p1_effective_prob |-> None,
     tob_p1_liq |-> None, crossed |-> None, error |-> message,
     ask_top_c |-> ask_top_c]

get_spread_orderbook_data(orderbook, side_to_trade, creds_ok) ==
    IF ~creds_ok THEN SpreadDataError("Failed to load credentials", None)
    ELSE IF orderbook = None THEN SpreadDataError("No orderbook", None)
    ELSE IF Upper(side_to_trade) \notin {"YES", "NO"}
    THEN SpreadDataError("Invalid side_to_trade", None)
    ELSE
    LET yes_top == get_yes_bid_top_and_liquidity(Val(orderbook))
        no_top  == get_no_bid_top_and_liquidity(Val(orderbook))
        own     == IF Upper(side_to_trade) = "YES" THEN yes_top ELSE no_top
        opp     == IF Upper(side_to_trade) = "YES" THEN no_top ELSE yes_top
        bid_top_c == own[1]
        ask_top_c == IF opp[1] # None THEN Some(100 - Val(opp[1])) ELSE None
    IN IF bid_top_c = None THEN SpreadDataError("No bids found", ask_top_c)
       ELSE
       LET p1 == IF Val(bid_top_c) < 99 THEN Some(Val(bid_top_c) + 1) ELSE None
           crossed == p1 # None /\ ask_top_c # None /\ Val(p1) >= Val(ask_top_c)
           bid_top_p1_c == IF crossed THEN None ELSE p1
       IN [tob_bid_cents |-> bid_top_c,
           tob_effective_prob |-> yes_break_even_prob(Val(bid_top_c)),
           tob_liq |-> own[2],
           tob_p1_bid_cents |-> bid_top_p1_c,
           tob_p1_effective_prob |->
               IF bid_top_p1_c # None
               THEN yes_break_even_prob(Val(bid_top_p1_c)) ELSE None,
           tob_p1_liq |-> None,
           crossed |-> Some(crossed),
           error |-> NoError,
           ask_top_c |-> ask_top_c]

ValueError == [raised |-> "ValueError"]

OrderbookSnapshot(market_ticker, side, bid, ask, bid_liq, prob_bid, prob_ask) ==
    [market_ticker |-> market_ticker, side |-> side,
     best_bid_cents |-> bid, best_ask_cents |-> ask,
     best_bid_liq |-> bid_liq, best_ask_liq |-> None,
     effective_prob_bid |-> prob_bid, effective_prob_ask |-> prob_ask]

\* a mutant of build_snapshot: the ask is the complement of the side's own
\* top bid
build_snapshot_own_side(market_ticker, side, orderbook) ==
    IF orderbook = None
    THEN OrderbookSnapshot(market_ticker, side, None, None, None, None, None)
    ELSE IF Upper(side) \notin {"YES", "NO"} THEN ValueError
    ELSE
    LET yes_top == get_yes_bid_top_and_liquidity(Val(orderbook))
        no_top  == get_no_bid_top_and_liquidity(Val(orderbook))
        own     == IF Upper(side) = "YES" THEN yes_top ELSE no_top
        bid_top_c == own[1]
        ask_top_c == IF own[1] # None THEN Some(100 - Val(own[1])) ELSE None
    IN OrderbookSnapshot(market_ticker, side, bid_top_c, ask_top_c, own[2],
           IF bid_top_c # None THEN yes_break_even_prob(Val(bid_top_c)) ELSE None,
           IF ask_top_c # None THEN yes_break_even_prob(Val(ask_top_c)) ELSE None)

\* a mutant of build_snapshot: the side is validated before the orderbook
\* is looked at
build_snapshot_side_first(market_ticker, side, orderbook) ==
    IF Upper(side) \notin {"YES", "NO"} THEN ValueError
    ELSE IF orderbook = None
    THEN OrderbookSnapshot(market_ticker, side, None, None, None, None, None)
    ELSE
    LET yes_top == get_yes_bid_top_and_liquidity(Val(orderbook))
        no_top  == get_no_bid_top_and_liquidity(Val(orderbook))
        own     == IF Upper(side) = "YES" THEN yes_top ELSE no_top
        opp     == IF Upper(side) = "YES" THEN no_top ELSE yes_top
        bid_top_c == own[1]
        ask_top_c == IF opp[1] # None THEN Some(100 - Val(opp[1])) ELSE None
    IN OrderbookSnapshot(market_ticker, side, bid_top_c, ask_top_c, own[2],
           IF bid_top_c # None THEN yes_break_even_prob(Val(bid_top_c)) ELSE None,
           IF ask_top_c # None THEN yes_break_even_prob(Val(ask_top_c)) ELSE None)

\* a mutant of build_snapshot: a side that is not YES is read as NO
build_snapshot_any_side(market_ticker, side, orderbook) ==
    IF orderbook = None
    THEN OrderbookSnapshot(market_ticker, side, None, None, None, None, None)
    ELSE
    LET yes_top == get_yes_bid_top_and_liquidity(Val(orderbook))
        no_top  == get_no_bid_top_and_liquidity(Val(orderbook))
        own     == IF Upper(side) = "YES" THEN yes_top ELSE no_top
        opp     == IF Upper(side) = "YES" THEN no_top ELSE yes_top
        bid_top_c == own[1]
        ask_top_c == IF opp[1] # None THEN Some(100 - Val(opp[1])) ELSE None
    IN OrderbookSnapshot(market_ticker, side, bid_top_c, ask_top_c, own[2],
           IF bid_top_c # None THEN yes_break_even_prob(Val(bid_top_c)) ELSE None,
           IF ask_top_c # None THEN yes_break_even_prob(Val(ask_top_c)) ELSE None)

\* get() from the fetched orderbook to the snapshot it builds, or the
\* ValueError it raises (the timestamp field is left out)
build_snapshot(market_ticker, side, orderbook) ==
    IF orderbook = None
    THEN OrderbookSnapshot(market_ticker, side, None, None, None, None, None)
    ELSE IF Upper(side) \notin {"YES", "NO"} THEN ValueError
    ELSE
    LET yes_top == get_yes_bid_top_and_liquidity(Val(orderbook))
        no_top  == get_no_bid_top_and_liquidity(Val(orderbook))
        own     == IF Upper(side) = "YES" THEN yes_top ELSE no_top
        opp     == IF Upper(side) = "YES" THEN no_top ELSE yes_top
        bid_top_c == own[1]
        ask_top_c == IF opp[1] # None THEN Some(100 - Val(opp[1])) ELSE None
    IN OrderbookSnapshot(market_ticker, side, bid_top_c, ask_top_c, own[2],
           IF bid_top_c # None THEN yes_break_even_prob(Val(bid_top_c)) ELSE None,
           IF ask_top_c # None THEN yes_break_even_prob(Val(ask_top_c)) ELSE None)

\* implied_asks.sort(key=lambda x: x[0]): ascending by price and stable
RECURSIVE asks_insert(_, _)
asks_insert(e, s) ==
    IF s = <<>> THEN <<e>>
    ELSE IF e[1] < Head(s)[1] THEN <<e>> \o s
    ELSE <<Head(s)>> \o asks_insert(e, Tail(s))

RECURSIVE asks_sort(_)
asks_sort(s) ==
    IF s = <<>> THEN <<>>
    ELSE asks_insert(s[Len(s)], asks_sort(SubSeq(s, 1, Len(s) - 1)))

derive_implied_yes_asks(no_bids) ==
    asks_sort([i \in 1..Len(no_bids) |-> <<100 - no_bids[i][1], no_bids[i][2]>>])

----------------------------------------------------------------------------
(* The orderbook readers as operations on one market.  The readers other   *)
(* than get keep no state: each is applied to the fetched orderbook once,  *)
(* from the initial state.  get and clear_cache may follow any call.       *)

MaxLadder == 2

\* bids on offer: two at 55 cents, one at 44 (55 + 44 = 99, so a one-cent
\* queue jump on either side meets the other side's implied ask), one at 99
Bids == {<<55, 10>>, <<55, 20>>, <<44, 10>>, <<99, 10>>}

Ladders == UNION { [1..n -> Bids] : n \in 0..MaxLadder }

Orderbooks == {None} \cup {Some(ob) : ob \in [yes : Ladders, no : Ladders]}

Ticker == "KXA"

BookSides == {"YES", "no", "MAYBE"}

InitBook ==
    /\ book \in Orderbooks
    /\ ob_cache = <<>>
    /\ ob_call = Idle
    /\ SelIdle /\ FeeIdle /\ RowIdle /\ OddsIdle /\ LinesIdle /\ MatchIdle /\ PureIdle /\ ServerIdle

GetYesBidTopAndLiquidity ==
    /\ ob_call = Idle
    /\ book # None
    /\ ob_call' = [op |-> "get_yes_bid_top_and_liquidity",
                   result |-> get_yes_bid_top_and_liquidity(Val(book))]
    /\ UNCHANGED <<book, ob_cache, selVars, feeVars, rowVars, oddsVars, lineVars, matchVars, pureVars, serverVars>>

GetNoBidTopAndLiquidity ==
    /\ ob_call = Idle
    /\ book # None
    /\ ob_call' = [op |-> "get_no_bid_top_and_liquidity",
                   result |-> get_no_bid_top_and_liquidity(Val(book))]
    /\ UNCHANGED <<book, ob_cache, selVars, feeVars, rowVars, oddsVars, lineVars, matchVars, pureVars, serverVars>>

GetMarketYesExposureData ==
    /\ ob_call = Idle
    /\ ob_call' = [op |-> "get_market_yes_exposure_data", side |-> "YES",
                   result |-> get_market_yes_exposure_data(book)]
    /\ UNCHANGED <<book, ob_cache, selVars, feeVars, rowVars, oddsVars, lineVars, matchVars, pureVars, serverVars>>

GetMarketNoExposureData ==
    /\ ob_call = Idle
    /\ ob_call' = [op |-> "get_market_no_exposure_data", side |-> "NO",
                   result |-> get_market_no_exposure_data(book)]
    /\ UNCHANGED <<book, ob_cache, selVars, feeVars, rowVars, oddsVars, lineVars, matchVars, pureVars, serverVars>>

GetSpreadOrderbookData ==
    /\ ob_call = Idle
    /\ \E side_to_trade \in BookSides, creds_ok \in BOOLEAN :
           ob_call' = [op |-> "get_spread_orderbook_data",
                       side |-> side_to_trade,
                       result |-> get_spread_orderbook_data(
                                      book, side_to_trade, creds_ok)]
    /\ UNCHANGED <<book, ob_cache, selVars, feeVars, rowVars, oddsVars, lineVars, matchVars, pureVars, serverVars>>

\* a mutant of cache_key: the key keeps the case of the arguments
cache_key_as_given(market_ticker, side) == <<market_ticker, side>>

\* cache_key = (market_ticker.upper(), side.upper())
cache_key(market_ticker, side) == <<Upper(market_ticker), Upper(side)>>

\* orderbook_snapshot.get: a cache hit returns the stored snapshot, else the
\* orderbook is fetched and the snapshot built and, with use_cache, stored
GetCall(market_ticker, side, use_cache) ==
    IF use_cache /\ cache_key(market_ticker, side) \in DOMAIN ob_cache
    THEN /\ ob_call' = [op |-> "get", side |-> side, use_cache |-> use_cache,
                        market_ticker |-> market_ticker, fetched |-> FALSE,
                        result |-> ob_cache[cache_key(market_ticker, side)]]
         /\ UNCHANGED <<book, ob_cache, selVars, feeVars, rowVars, oddsVars, lineVars, matchVars, pureVars, serverVars>>
    ELSE /\ ob_call' = [op |-> "get", side |-> side, use_cache |-> use_cache,
                        market_ticker |-> market_ticker, fetched |-> TRUE,
                        result |-> build_snapshot(market_ticker, side, book)]
         /\ ob_cache' = IF use_cache /\ build_snapshot(market_ticker, side, book) # ValueError
                        THEN DictPut(ob_cache, cache_key(market_ticker, side),
                                     build_snapshot(market_ticker, side, book))
                        ELSE ob_cache
         /\ UNCHANGED <<book, selVars, feeVars, rowVars, oddsVars, lineVars, matchVars, pureVars, serverVars>>

Get == \E side \in BookSides, use_cache \in BOOLEAN : GetCall(Ticker, side, use_cache)

ClearCache ==
    /\ ob_cache' = <<>>
    /\ ob_call' = [op |-> "clear_cache"]
    /\ UNCHANGED <<book, selVars, feeVars, rowVars, oddsVars, lineVars, matchVars, pureVars, serverVars>>

DeriveImpliedYesAsks ==
    /\ ob_call = Idle
    /\ book # None
    /\ ob_call' = [op |-> "derive_implied_yes_asks",
                   result |-> derive_implied_yes_asks(Val(book).no)]
    /\ UNCHANGED <<book, ob_cache, selVars, feeVars, rowVars, oddsVars, lineVars, matchVars, pureVars, serverVars>>

GetYesAskPricesAndLiquidity ==
    /\ ob_call = Idle
    /\ book # None
    /\ ob_call' = [op |-> "get_yes_ask_prices_and_liquidity",
                   result |-> get_yes_ask_prices_and_liquidity(Val(book))]
    /\ UNCHANGED <<book, ob_cache, selVars, feeVars, rowVars, oddsVars, lineVars, matchVars, pureVars, serverVars>>

NextBook ==
    \/ GetYesAskPricesAndLiquidity
    \/ GetYesBidTopAndLiquidity
    \/ GetNoBidTopAndLiquidity
    \/ GetMarketYesExposureData
    \/ GetMarketNoExposureData
    \/ GetSpreadOrderbookData
    \/ Get
    \/ ClearCache
    \/ DeriveImpliedYesAsks

SpecBook == InitBook /\ [][NextBook]_vars

----------------------------------------------------------------------------
(* Properties of the orderbook readers (checked under SpecBook) *)

LadderPrices(ladder) == {ladder[i][1] : i \in 1..Len(ladder)}

\* the best bid of a ladder that has bids
MaxPrice(ladder) ==
    CHOOSE p \in LadderPrices(ladder) : \A q \in LadderPrices(ladder) : q <= p

\* the quantity on offer at a price, over all bids of the ladder
RECURSIVE QtyAt(_, _)
QtyAt(ladder, price) ==
    IF ladder = <<>> THEN 0
    ELSE (IF Head(ladder)[1] = price THEN Head(ladder)[2] ELSE 0)
         + QtyAt(Tail(ladder), price)

\* the ladder a call reads its bids from, and the ladder of the other side
SideLadder(side) ==
    IF book = None THEN <<>>
    ELSE IF Upper(side) = "YES" THEN Val(book).yes ELSE Val(book).no

OppLadder(side) ==
    IF book = None THEN <<>>
    ELSE IF Upper(side) = "YES" THEN Val(book).no ELSE Val(book).yes

QueueJumpOps ==
    {"get_market_yes_exposure_data", "get_market_no_exposure_data",
     "get_spread_orderbook_data"}

\* the top bid, queue-jump price, its probability and its liquidity in the
\* result of a reader
TopOf(call) ==
    IF call.op = "get_spread_orderbook_data"
    THEN call.result.tob_bid_cents ELSE call.result.yes_bid_top_c

QueueJumpOf(call) ==
    IF call.op = "get_spread_orderbook_data"
    THEN call.result.tob_p1_bid_cents ELSE call.result.yes_bid_top_p1_c

QueueJumpProbOf(call) ==
    IF call.op = "get_spread_orderbook_data"
    THEN call.result.tob_p1_effective_prob ELSE call.result.yes_be_topm1

QueueJumpLiqOf(call) ==
    IF call.op = "get_spread_orderbook_data"
    THEN call.result.tob_p1_liq ELSE call.result.yes_bid_top_p1_liq

\* C6: whatever the order of the ladder, the top price returned by
\* get_yes_bid_top_and_liquidity / get_no_bid_top_and_liquidity is the
\* highest price among its bids and the top liquidity is the sum of the
\* quantities of all bids at that price.
C6_TopIsMaxAndLiquiditySummed ==
    ob_call.op \in {"get_yes_bid_top_and_liquidity", "get_no_bid_top_and_liquidity"} =>
        LET ladder == IF ob_call.op = "get_yes_bid_top_and_liquidity"
                      THEN Val(book).yes ELSE Val(book).no
        IN ladder # <<>> =>
               /\ ob_call.result[1] = Some(MaxPrice(ladder))
               /\ ob_call.result[2] = Some(QtyAt(ladder, MaxPrice(ladder)))

\* the ladder [[55,10],[55,20]] gives price 55 with liquidity 30
C6_Witness ==
    /\ ob_call.op = "get_yes_bid_top_and_liquidity"
    /\ Val(book).yes = << <<55, 10>>, <<55, 20>> >>
    /\ ob_call.result[1] = Some(55)
    /\ ob_call.result[2] = Some(30)

\* an ask was derived: get returned a snapshot of a fetched orderbook, or
\* get_spread_orderbook_data got as far as assigning ask_top_c
AskDerived ==
    \/ ob_call.op = "get" /\ ob_call.result # ValueError
    \/ /\ ob_call.op = "get_spread_orderbook_data"
       /\ ob_call.result.error \notin
              {"Failed to load credentials", "No orderbook", "Invalid side_to_trade"}

DerivedAsk ==
    IF ob_call.op = "get" THEN ob_call.result.best_ask_cents
    ELSE ob_call.result.ask_top_c

\* C7: an implied ask derived by orderbook_snapshot.get or
\* get_spread_orderbook_data plus the top bid of the opposite side is 100,
\* and the ask is absent exactly when the opposite side has no bids; the
\* lowest ask of derive_implied_yes_asks plus the top NO bid is 100 too.
C7_AskIsComplementOfOppositeBid ==
    /\ AskDerived =>
           LET opp == OppLadder(ob_call.side) IN
           /\ DerivedAsk = None <=> opp = <<>>
           /\ DerivedAsk # None => Val(DerivedAsk) + MaxPrice(opp) = 100
    /\ ob_call.op = "derive_implied_yes_asks" =>
           LET no_bids == Val(book).no IN
           /\ ob_call.result = <<>> <=> no_bids = <<>>
           /\ ob_call.result # <<>> =>
                  ob_call.result[1][1] + MaxPrice(no_bids) = 100

\* the NO side of a book whose best YES bid is 55 and which has NO bids:
\* the NO ask is 45
C7_Witness ==
    /\ ob_call.op = "get"
    /\ ob_call.side = "no"
    /\ book # None
    /\ Val(book).no # <<>>
    /\ Val(book).yes # <<>>
    /\ MaxPrice(Val(book).yes) = 55
    /\ ob_call.result # ValueError
    /\ ob_call.result.best_ask_cents = Some(45)

\* C8: no orderbook reader emits a queue-jump price that meets or exceeds
\* the implied ask of the opposite side: whenever top bid + 1 >= 100 - top
\* bid of the opposite side, the queue-jump price and its break-even
\* probability are None.
C8_NoCrossingQueueJump ==
    (ob_call.op \in QueueJumpOps /\ TopOf(ob_call) # None) =>
        LET opp == OppLadder(ob_call.side) IN
        (opp # <<>> /\ Val(TopOf(ob_call)) + 1 >= 100 - MaxPrice(opp)) =>
            /\ QueueJumpOf(ob_call) = None
            /\ QueueJumpProbOf(ob_call) = None

\* C9: a queue-jump price, when a reader produces one, is the top bid plus
\* one cent and the top bid is below 99; the liquidity reported for the
\* queue-jump level is None.
C9_QueueJumpIsTopPlusOne ==
    ob_call.op \in QueueJumpOps =>
        /\ QueueJumpOf(ob_call) # None =>
               /\ TopOf(ob_call) # None
               /\ Val(TopOf(ob_call)) < 99
               /\ Val(QueueJumpOf(ob_call)) = Val(TopOf(ob_call)) + 1
        /\ (TopOf(ob_call) # None /\ Val(TopOf(ob_call)) >= 99) =>
               QueueJumpOf(ob_call) = None
        /\ QueueJumpLiqOf(ob_call) = None

\* best NO bid 44: the queue-jump price is 45, its liquidity None
C9_Witness ==
    /\ ob_call.op = "get_market_no_exposure_data"
    /\ ob_call.result.yes_bid_top_c = Some(44)
    /\ ob_call.result.yes_bid_top_p1_c = Some(45)
    /\ ob_call.result.yes_bid_top_liq # None
    /\ ob_call.result.yes_bid_top_p1_liq = None

\* best bid 99: no queue-jump price
C9_WitnessAt99 ==
    /\ ob_call.op = "get_spread_orderbook_data"
    /\ ob_call.result.tob_bid_cents = Some(99)
    /\ ob_call.result.tob_p1_bid_cents = None

\* nothing came back from fetch_orderbook (None or {}), or an orderbook
\* whose two ladders are empty
NothingFetched == book = None

EmptyLadders == book # None /\ Val(book).yes = <<>> /\ Val(book).no = <<>>

\* no price, no probability and no liquidity in the result of a reader
NoLiquidity(call) ==
    /\ "raised" \notin DOMAIN call.result
    /\ CASE call.op = "get_spread_orderbook_data" ->
               /\ call.result.tob_bid_cents = None
               /\ call.result.tob_effective_prob = None
               /\ call.result.tob_liq = None
               /\ call.result.tob_p1_bid_cents = None
               /\ call.result.tob_p1_effective_prob = None
               /\ call.result.tob_p1_liq = None
         [] call.op = "get_market_no_exposure_data" ->
               /\ call.result.yes_bid_top_c = None
               /\ call.result.yes_bid_top_p1_c = None
               /\ call.result.yes_be_top = None
               /\ call.result.yes_be_topm1 = None
               /\ call.result.yes_bid_top_liq = None
               /\ call.result.yes_bid_top_p1_liq = None
         [] call.op = "get" ->
               /\ call.result.best_bid_cents = None
               /\ call.result.best_ask_cents = None
               /\ call.result.best_bid_liq = None
               /\ call.result.best_ask_liq = None
               /\ call.result.effective_prob_bid = None
               /\ call.result.effective_prob_ask = None

\* C19: when fetch_orderbook returns nothing, get_spread_orderbook_data,
\* get_market_no_exposure_data and orderbook_snapshot.get raise nothing and
\* return a result without price, probability or liquidity, whatever the
\* side asked for; an orderbook whose ladders are both empty gives the same
\* for the sides YES and NO.
C19_NoOrderbookIsNoLiquidity ==
    ob_call.op \in {"get_spread_orderbook_data", "get_market_no_exposure_data", "get"} =>
        /\ NothingFetched => NoLiquidity(ob_call)
        /\ (EmptyLadders /\ Upper(ob_call.side) \in {"YES", "NO"}) =>
               NoLiquidity(ob_call)

\* get() with a side that is neither YES nor NO and no orderbook: the empty
\* snapshot, which went into the cache
C19_Witness ==
    /\ NothingFetched
    /\ ob_call.op = "get" /\ ob_call.side = "MAYBE" /\ ob_call.fetched
    /\ ob_call.use_cache
    /\ NoLiquidity(ob_call)
    /\ ob_cache[<<Upper(Ticker), "MAYBE">>] = ob_call.result

\* get_spread_orderbook_data on an orderbook with two empty ladders
C19_WitnessEmptyLadders ==
    /\ EmptyLadders
    /\ ob_call.op = "get_spread_orderbook_data"
    /\ ob_call.result.error = "No bids found"
    /\ NoLiquidity(ob_call)

InvalidSide(side) == Upper(side) \notin {"YES", "NO"}

InvalidKeys == {key \in DOMAIN ob_cache : InvalidSide(key[2])}

\* C28 as stated: get() with a side other than YES or NO raises ValueError
\* and stores nothing in the cache, whatever was fetched, an absent orderbook
\* included.
C28_InvalidSideAlwaysRaises ==
    /\ (ob_call.op = "get" /\ InvalidSide(ob_call.side)) =>
           ob_call.result = ValueError
    /\ InvalidKeys = {}

KeyOf(call) == <<Upper(call.market_ticker), Upper(call.side)>>

\* a get with an invalid side that fetches: with an orderbook it raises and
\* the cache stays as it was; without one it returns the all-None snapshot
\* and, under use_cache, stores it
InvalidSideStep ==
    (ob_call'.op = "get" /\ InvalidSide(ob_call'.side) /\ ob_call'.fetched
       /\ <<ob_call, ob_cache>>' # <<ob_call, ob_cache>>)
    => IF book # None
       THEN /\ ob_call'.result = ValueError
            /\ ob_cache' = ob_cache
       ELSE /\ ob_call'.result =
                   OrderbookSnapshot(ob_call'.market_ticker, ob_call'.side,
                                     None, None, None, None, None)
            /\ ob_cache' = IF ob_call'.use_cache
                           THEN DictPut(ob_cache, KeyOf(ob_call'), ob_call'.result)
                           ELSE ob_cache

\* C28 (amended): get() with a side other than YES or NO raises ValueError
\* and stores nothing in the cache when the orderbook it fetches is there;
\* when the fetch returns no orderbook it raises nothing, returns the
\* all-None snapshot and with use_cache stores it under that side.
C28_InvalidSideRaisesOnOrderbook == [][InvalidSideStep]_vars

\* get(side="MAYBE") on a fetched orderbook raised, and the cache holds only
\* the YES snapshot an earlier call stored
C28_Witness ==
    /\ ob_call.op = "get" /\ ob_call.side = "MAYBE" /\ ob_call.use_cache
    /\ ob_call.fetched
    /\ book # None /\ Val(book).yes # <<>>
    /\ ob_call.result = ValueError
    /\ DOMAIN ob_cache = {<<Upper(Ticker), "YES">>}

----------------------------------------------------------------------------
(* Moneyline rows: moneylines/table.py, orchestrator.py,                   *)
(* data_build/top_of_book.py                                               *)
(*                                                                         *)
(* A market ticker is the sequence of its dash-separated parts; the empty  *)
(* sequence is a ticker that is None or "".  An EV is a difference of      *)
(* probabilities times 100, so in units of 1e-5 probability it counts      *)
(* 1e-3 percent.                                                           *)

\* moneylines/table.py
compute_ev_percent(p_yes_fair, p_yes_be) ==
    IF p_yes_fair = None \/ p_yes_be = None THEN None
    ELSE Some(Val(p_yes_fair) - Val(p_yes_be))

\* orchestrator.py
derive_event_ticker(market_ticker) ==
    IF market_ticker = <<>> THEN None
    ELSE IF Len(market_ticker) >= 3
         THEN Some(SubSeq(market_ticker, 1, Len(market_ticker) - 1))
         ELSE None

\* a mutant of row_ev: a missing fair probability counts as 0
row_ev_fair_or_zero(fair, be) ==
    IF be = None THEN None
    ELSE Some((IF fair = None THEN 0 ELSE Val(fair)) - Val(be))

\* the expression of the four EV fields in build_moneylines_rows:
\* (fair - be) * 100.0 if (fair is not None and be is not None) else None
row_ev(fair, be) ==
    IF fair # None /\ be # None THEN Some(Val(fair) - Val(be)) ELSE None

\* what a get_top_of_book_post_probs worker comes back with.  answer.kind is
\* "raises" (an exception leaves the worker, as int() does on a price that is
\* not a number), "no_data" (the event ticker does not parse or the
\* credentials do not load: every value None) or "books" (the two markets'
\* orderbooks were fetched)
PostProbs(away_result, home_result) ==
    [yes_be_top_away |-> away_result.yes_be_top,
     yes_be_topm1_away |-> away_result.yes_be_topm1,
     yes_be_top_home |-> home_result.yes_be_top,
     yes_be_topm1_home |-> home_result.yes_be_topm1,
     yes_bid_top_c_away |-> away_result.yes_bid_top_c,
     yes_bid_top_c_home |-> home_result.yes_bid_top_c,
     yes_bid_top_liq_away |-> away_result.yes_bid_top_liq,
     yes_bid_top_p1_liq_away |-> away_result.yes_bid_top_p1_liq,
     yes_bid_top_liq_home |-> home_result.yes_bid_top_liq,
     yes_bid_top_p1_liq_home |-> home_result.yes_bid_top_p1_liq]

NoPostProbs == PostProbs(ExposureError("no data"), ExposureError("no data"))

Raised == [raised |-> "Exception"]

get_top_of_book_post_probs(answer) ==
    IF answer.kind = "raises" THEN Raised
    ELSE IF answer.kind = "no_data" THEN NoPostProbs
    ELSE PostProbs(get_market_no_exposure_data(answer.home_book),
                   get_market_no_exposure_data(answer.away_book))

\* game_to_event: the event ticker of a game, from the away ticker when there
\* is one, else from the home ticker
game_event_ticker(game) ==
    IF game.away_kalshi_ticker # <<>>
    THEN derive_event_ticker(game.away_kalshi_ticker)
    ELSE IF game.home_kalshi_ticker # <<>>
    THEN derive_event_ticker(game.home_kalshi_ticker)
    ELSE None

\* one row of build_moneylines_rows; prob_data is None when the game has no
\* event ticker, and a dict without the probability keys ({"error": ...},
\* here NoPostProbs) when the worker raised
moneyline_row(game, event_ticker, prob_data) ==
    LET data == IF prob_data = None THEN NoPostProbs ELSE Val(prob_data) IN
    [game |-> game.id,
     away_roto |-> game.away_roto,
     away_fair |-> game.away_fair,
     home_fair |-> game.home_fair,
     event_ticker |-> event_ticker,
     away_top_prob |-> data.yes_be_top_away,
     away_topm1_prob |-> data.yes_be_topm1_away,
     home_top_prob |-> data.yes_be_top_home,
     home_topm1_prob |-> data.yes_be_topm1_home,
     away_top_liq |-> data.yes_bid_top_liq_away,
     away_topm1_liq |-> data.yes_bid_top_p1_liq_away,
     home_top_liq |-> data.yes_bid_top_liq_home,
     home_topm1_liq |-> data.yes_bid_top_p1_liq_home,
     away_top_price_cents |-> data.yes_bid_top_c_away,
     home_top_price_cents |-> data.yes_bid_top_c_home,
     away_ev_top |-> row_ev(game.away_fair, data.yes_be_top_away),
     away_ev_topm1 |-> row_ev(game.away_fair, data.yes_be_topm1_away),
     home_ev_top |-> row_ev(game.home_fair, data.yes_be_top_home),
     home_ev_topm1 |-> row_ev(game.home_fair, data.yes_be_topm1_home)]

\* key=lambda x: (x.get('away_roto') is None, x.get('away_roto') or 0)
roto_key_less(x, y) ==
    LET kx == <<IF x.away_roto = None THEN 1 ELSE 0,
                IF x.away_roto = None THEN 0 ELSE Val(x.away_roto)>>
        ky == <<IF y.away_roto = None THEN 1 ELSE 0,
                IF y.away_roto = None THEN 0 ELSE Val(y.away_roto)>>
    IN kx[1] < ky[1] \/ (kx[1] = ky[1] /\ kx[2] < ky[2])

RECURSIVE rows_insert(_, _)
rows_insert(e, s) ==
    IF s = <<>> THEN <<e>>
    ELSE IF roto_key_less(e, Head(s)) THEN <<e>> \o s
    ELSE <<Head(s)>> \o rows_insert(e, Tail(s))

\* moneyline_rows.sort(key=...): ascending and stable
RECURSIVE rows_sort(_)
rows_sort(s) ==
    IF s = <<>> THEN <<>>
    ELSE rows_insert(s[Len(s)], rows_sort(SubSeq(s, 1, Len(s) - 1)))

\* orchestrator.build_moneylines_rows.  answers[e] is what the worker for
\* event ticker e meets.  ThreadPoolExecutor(max_workers=0) raises
\* ValueError, which is what happens when no game has an event ticker.
\* The result is the exception raised, if any, and the rows returned.
build_moneylines_rows(games, answers) ==
    LET event_of(i) == game_event_ticker(games[i])
        event_tickers == {Val(event_of(i)) : i \in {j \in 1..Len(games) : event_of(j) # None}}
        event_probs(e) ==
            LET prob_result == get_top_of_book_post_probs(answers[e]) IN
            IF prob_result = Raised THEN NoPostProbs ELSE prob_result
    IN IF event_tickers = {} THEN [raised |-> "ValueError", rows |-> <<>>]
       ELSE [raised |-> NoError,
             rows |-> rows_sort([i \in 1..Len(games) |->
                moneyline_row(games[i], event_of(i),
                    IF event_of(i) # None
                    THEN Some(event_probs(Val(event_of(i)))) ELSE None)])]

\* refresh_server.py: a dict with no key
EmptyDict == <<>>

\* a mutant of refresh_row_ev: the seller convention
refresh_row_ev_seller(fair, be) ==
    IF fair # None /\ be # None THEN Some(Val(be) - Val(fair)) ELSE None

\* the expression of the four EV fields in fetch_and_build_moneylines
refresh_row_ev(fair, be) ==
    IF fair # None /\ be # None THEN Some(Val(fair) - Val(be)) ELSE None

\* one row of fetch_and_build_moneylines; prob_data is None when the game has
\* no event ticker or the cache has nothing for it
refresh_moneyline_row(game, event_ticker, prob_data) ==
    LET data == IF prob_data = None THEN NoPostProbs ELSE Val(prob_data) IN
    [game |-> game.id,
     away_roto |-> game.away_roto,
     away_fair |-> game.away_fair,
     home_fair |-> game.home_fair,
     event_ticker |-> event_ticker,
     away_top_prob |-> data.yes_be_top_away,
     away_topm1_prob |-> data.yes_be_topm1_away,
     home_top_prob |-> data.yes_be_top_home,
     home_topm1_prob |-> data.yes_be_topm1_home,
     away_top_liq |-> data.yes_bid_top_liq_away,
     away_topm1_liq |-> data.yes_bid_top_p1_liq_away,
     home_top_liq |-> data.yes_bid_top_liq_home,
     home_topm1_liq |-> data.yes_bid_top_p1_liq_home,
     away_ev_top |-> refresh_row_ev(game.away_fair, data.yes_be_top_away),
     away_ev_topm1 |-> refresh_row_ev(game.away_fair, data.yes_be_topm1_away),
     home_ev_top |-> refresh_row_ev(game.home_fair, data.yes_be_top_home),
     home_ev_topm1 |-> refresh_row_ev(game.home_fair, data.yes_be_topm1_home)]

\* a variant that asks Kalshi on every call
fetch_and_build_moneylines_always_kalshi(refresh_unabated, refresh_kalshi, slate, answers, unabated, event_probs_cache) ==
    LET games == IF refresh_unabated \/ unabated = None THEN slate
                 ELSE Val(unabated)
        new_unabated == IF refresh_unabated \/ unabated = None THEN Some(slate)
                        ELSE unabated
        event_of(i) == game_event_ticker(games[i])
        event_tickers == {Val(event_of(i)) : i \in {j \in 1..Len(games) : event_of(j) # None}}
        fetched == [e \in event_tickers |-> get_top_of_book_post_probs(answers[e])]
        prob_data(i) ==
            IF event_of(i) # None /\ Val(event_of(i)) \in DOMAIN fetched
            THEN Some(fetched[Val(event_of(i))]) ELSE None
    IN IF games = <<>>
       THEN [raised |-> NoError, rows |-> <<>>,
             kalshi_fetches |-> {},
             cache_unabated |-> new_unabated,
             cache_event_probs |-> event_probs_cache]
       ELSE IF \E e \in event_tickers : fetched[e] = Raised
       THEN [raised |-> "Exception", rows |-> <<>>,
             kalshi_fetches |-> event_tickers,
             cache_unabated |-> new_unabated,
             cache_event_probs |-> event_probs_cache]
       ELSE [raised |-> NoError,
             rows |-> rows_sort([i \in 1..Len(games) |->
                         refresh_moneyline_row(games[i], event_of(i), prob_data(i))]),
             kalshi_fetches |-> event_tickers,
             cache_unabated |-> new_unabated,
             cache_event_probs |-> fetched]

\* refresh_server.fetch_and_build_moneylines.  slate is what
\* get_today_games_with_fairs_and_kalshi_tickers returns, answers[e] what
\* get_top_of_book_post_probs meets for event ticker e; unabated and
\* event_probs are the two module-level caches.  The result is the exception
\* that leaves the function, if any, the rows returned and the caches after
\* the call.  An exception of get_top_of_book_post_probs is not caught: it
\* leaves the function after cache_unabated was assigned.  kalshi_fetches
\* are the event tickers whose orderbooks the function asks Kalshi for.
fetch_and_build_moneylines(refresh_unabated, refresh_kalshi, slate, answers, unabated, event_probs_cache) ==
    LET games == IF refresh_unabated \/ unabated = None THEN slate
                 ELSE Val(unabated)
        new_unabated == IF refresh_unabated \/ unabated = None THEN Some(slate)
                        ELSE unabated
        event_of(i) == game_event_ticker(games[i])
        event_tickers == {Val(event_of(i)) : i \in {j \in 1..Len(games) : event_of(j) # None}}
        fetched == [e \in event_tickers |-> get_top_of_book_post_probs(answers[e])]
        event_probs == IF refresh_kalshi THEN fetched ELSE event_probs_cache
        prob_data(i) ==
            IF event_of(i) # None /\ Val(event_of(i)) \in DOMAIN event_probs
            THEN Some(event_probs[Val(event_of(i))]) ELSE None
        kalshi_fetches == IF refresh_kalshi THEN event_tickers ELSE {}
    IN IF games = <<>>
       THEN [raised |-> NoError, rows |-> <<>>,
             kalshi_fetches |-> {},
             cache_unabated |-> new_unabated,
             cache_event_probs |-> event_probs_cache]
       ELSE IF refresh_kalshi /\ \E e \in event_tickers : fetched[e] = Raised
       THEN [raised |-> "Exception", rows |-> <<>>,
             kalshi_fetches |-> kalshi_fetches,
             cache_unabated |-> new_unabated,
             cache_event_probs |-> event_probs_cache]
       ELSE [raised |-> NoError,
             rows |-> rows_sort([i \in 1..Len(games) |->
                         refresh_moneyline_row(games[i], event_of(i), prob_data(i))]),
             kalshi_fetches |-> kalshi_fetches,
             cache_unabated |-> new_unabated,
             cache_event_probs |-> event_probs]

----------------------------------------------------------------------------
(* The moneyline row builder as an operation *)

MaxGames == 2

EventTicker1 == <<"KXNBAGAME", "26JAN08AAABBB">>

\* <<away ticker, home ticker>>: no tickers, both market tickers of the
\* event, the home ticker only, an away ticker with too few parts
TickerPairs ==
    {<< <<>>, <<>> >>,
     <<EventTicker1 \o <<"AAA">>, EventTicker1 \o <<"BBB">> >>,
     << <<>>, EventTicker1 \o <<"BBB">> >>,
     << <<"KXNBAGAME", "AAA">>, EventTicker1 \o <<"BBB">> >>}

\* <<away fair, home fair>>
FairPairs ==
    {<<None, None>>, <<Some(44566), Some(55434)>>, <<None, Some(55434)>>}

GameBodies ==
    {[away_kalshi_ticker |-> t[1], home_kalshi_ticker |-> t[2],
      away_fair |-> f[1], home_fair |-> f[2], away_roto |-> r] :
         t \in TickerPairs, f \in FairPairs, r \in {None, Some(501)}}

\* game lists: the i-th game has id i (standing for its team names and date)
GameLists(max_games) ==
    UNION { { [i \in 1..n |-> [id |-> i,
                               away_kalshi_ticker |-> f[i].away_kalshi_ticker,
                               home_kalshi_ticker |-> f[i].home_kalshi_ticker,
                               away_fair |-> f[i].away_fair,
                               home_fair |-> f[i].home_fair,
                               away_roto |-> f[i].away_roto]] :
              f \in [1..n -> GameBodies] } : n \in 0..max_games }

NoBidsOnly(price) == Some([yes |-> <<>>, no |-> << <<price, 10>> >>])

\* the worker raises; it has no data; both markets have a NO bid; the home
\* market has a NO bid at 99 cents and the away market no orderbook
Answers ==
    {[kind |-> "raises", home_book |-> None, away_book |-> None],
     [kind |-> "no_data", home_book |-> None, away_book |-> None],
     [kind |-> "books", home_book |-> NoBidsOnly(44), away_book |-> NoBidsOnly(55)],
     [kind |-> "books", home_book |-> NoBidsOnly(99), away_book |-> None]}

InitRows ==
    /\ rows_in \in [games : GameLists(MaxGames), answers : [{EventTicker1} -> Answers]]
    /\ rows_out = Idle
    /\ cache_unabated = None
    /\ cache_event_probs = EmptyDict
    /\ SelIdle /\ FeeIdle /\ BookIdle /\ OddsIdle /\ LinesIdle /\ MatchIdle /\ PureIdle /\ ServerIdle

BuildMoneylinesRows ==
    /\ rows_out = Idle
    /\ rows_out' = [op |-> "build_moneylines_rows",
                    result |-> build_moneylines_rows(rows_in.games, rows_in.answers)]
    /\ UNCHANGED <<rows_in, cache_unabated, cache_event_probs,
                   selVars, feeVars, bookVars, oddsVars, lineVars, matchVars, pureVars, serverVars>>

\* compute_ev_percent as the table builder of moneylines/table.py calls it:
\* on the fair away probability of a game and the break-even probability
\* that the game's event gives
ComputeEvPercent ==
    /\ rows_out = Idle
    /\ \E i \in 1..Len(rows_in.games) :
           LET game == rows_in.games[i]
               event_ticker == game_event_ticker(game)
               prob_result ==
                   IF event_ticker = None THEN NoPostProbs
                   ELSE get_top_of_book_post_probs(rows_in.answers[Val(event_ticker)])
               p_yes_be == IF prob_result = Raised THEN None
                           ELSE prob_result.yes_be_top_away
           IN rows_out' = [op |-> "compute_ev_percent",
                           p_yes_fair |-> game.away_fair, p_yes_be |-> p_yes_be,
                           result |-> compute_ev_percent(game.away_fair, p_yes_be)]
    /\ UNCHANGED <<rows_in, cache_unabated, cache_event_probs,
                   selVars, feeVars, bookVars, oddsVars, lineVars, matchVars, pureVars, serverVars>>

\* a refresh request of the dashboard server; the server answers requests
\* one after the other for as long as it runs
FetchAndBuildMoneylines ==
    /\ rows_out.op \in {"idle", "fetch_and_build_moneylines"}
    /\ \E refresh_unabated \in BOOLEAN, refresh_kalshi \in BOOLEAN :
          LET r == fetch_and_build_moneylines(refresh_unabated, refresh_kalshi,
                       rows_in.games, rows_in.answers,
                       cache_unabated, cache_event_probs)
          IN /\ rows_out' = [op |-> "fetch_and_build_moneylines",
                             refresh_unabated |-> refresh_unabated,
                             refresh_kalshi |-> refresh_kalshi,
                             kalshi_fetches |-> r.kalshi_fetches,
                             result |-> [raised |-> r.raised, rows |-> r.rows]]
             /\ cache_unabated' = r.cache_unabated
             /\ cache_event_probs' = r.cache_event_probs
    /\ UNCHANGED <<rows_in, selVars, feeVars, bookVars, oddsVars, lineVars, matchVars, pureVars, serverVars>>

NextRows == BuildMoneylinesRows \/ ComputeEvPercent \/ FetchAndBuildMoneylines

SpecRows == InitRows /\ [][NextRows]_vars

----------------------------------------------------------------------------
(* Properties of the moneyline rows (checked under SpecRows) *)

RowsBuilt ==
    rows_out.op = "build_moneylines_rows" /\ rows_out.result.raised = NoError

Rows == {rows_out.result.rows[i] : i \in 1..Len(rows_out.result.rows)}

GameOf(row) == rows_in.games[row.game]

\* the worker's answer for the game of a row gives no orderbook data: the
\* game has no event ticker, or the worker raised or had no data
NoOrderbookData(row) ==
    \/ game_event_ticker(GameOf(row)) = None
    \/ rows_in.answers[Val(game_event_ticker(GameOf(row)))].kind # "books"

\* C10: in every moneyline row an EV field is None exactly when its fair
\* probability or its break-even probability is None; the fair probability
\* of the row is the one of its game, and a game without an event ticker or
\* without orderbook data has no break-even probability and so no EV.
\* compute_ev_percent returns None exactly when one of its operands is None.
C10_NoResultPropagates ==
    /\ RowsBuilt =>
           \A row \in Rows :
               /\ row.away_fair = GameOf(row).away_fair
               /\ row.home_fair = GameOf(row).home_fair
               /\ row.away_ev_top = None <=>
                      (row.away_fair = None \/ row.away_top_prob = None)
               /\ row.away_ev_topm1 = None <=>
                      (row.away_fair = None \/ row.away_topm1_prob = None)
               /\ row.home_ev_top = None <=>
                      (row.home_fair = None \/ row.home_top_prob = None)
               /\ row.home_ev_topm1 = None <=>
                      (row.home_fair = None \/ row.home_topm1_prob = None)
               /\ NoOrderbookData(row) =>
                      /\ row.away_top_prob = None /\ row.away_topm1_prob = None
                      /\ row.home_top_prob = None /\ row.home_topm1_prob = None
                      /\ row.away_ev_top = None /\ row.away_ev_topm1 = None
                      /\ row.home_ev_top = None /\ row.home_ev_topm1 = None
    /\ rows_out.op = "compute_ev_percent" =>
           (rows_out.result = None <=>
                (rows_out.p_yes_fair = None \/ rows_out.p_yes_be = None))

\* two rows: a game without a fair away probability whose event has a NO
\* bid at 99 cents on the home market only (away EV None although the
\* break-even probability is there, home EV None for want of an orderbook),
\* and a game without a ticker
C10_Witness ==
    /\ RowsBuilt
    /\ \E row \in Rows :
           /\ row.away_fair = None
           /\ row.away_top_prob = Some(99018)
           /\ row.away_ev_top = None
           /\ row.home_fair # None
           /\ row.home_top_prob = None
           /\ row.home_ev_top = None
    /\ \E row \in Rows :
           /\ game_event_ticker(GameOf(row)) = None
           /\ row.away_fair # None
           /\ row.away_ev_top = None

RefreshRowsBuilt ==
    rows_out.op = "fetch_and_build_moneylines" /\ rows_out.result.raised = NoError

\* the buyer convention on one EV field of a row
BuyerEv(fair, be, ev) ==
    (fair # None /\ be # None) =>
        /\ ev = Some(Val(fair) - Val(be))
        /\ Val(ev) > 0 <=> Val(fair) > Val(be)
        /\ Val(ev) < 0 <=> Val(fair) < Val(be)

BuyerRow(row) ==
    /\ BuyerEv(row.away_fair, row.away_top_prob, row.away_ev_top)
    /\ BuyerEv(row.away_fair, row.away_topm1_prob, row.away_ev_topm1)
    /\ BuyerEv(row.home_fair, row.home_top_prob, row.home_ev_top)
    /\ BuyerEv(row.home_fair, row.home_topm1_prob, row.home_ev_topm1)

C11_WitnessOrchestrator ==
    /\ RowsBuilt
    /\ \E row \in Rows :
           /\ row.away_ev_top = Some(134)
           /\ row.home_ev_top = Some(0)

\* the probabilities the cache holds for a row's event
CachedProbData(row, event_probs) ==
    IF row.event_ticker # None /\ Val(row.event_ticker) \in DOMAIN event_probs
    THEN event_probs[Val(row.event_ticker)] ELSE NoPostProbs

RowUsesProbData(row, data) ==
    /\ row.away_top_prob = data.yes_be_top_away
    /\ row.away_topm1_prob = data.yes_be_topm1_away
    /\ row.home_top_prob = data.yes_be_top_home
    /\ row.home_topm1_prob = data.yes_be_topm1_home
    /\ row.away_top_liq = data.yes_bid_top_liq_away
    /\ row.home_top_liq = data.yes_bid_top_liq_home

\* a call fetch_and_build_moneylines(refresh_unabated=True, refresh_kalshi=False)
UnabatedOnlyStep ==
    /\ rows_out'.op = "fetch_and_build_moneylines"
    /\ rows_out'.refresh_unabated /\ ~rows_out'.refresh_kalshi
    /\ <<rows_out, cache_unabated, cache_event_probs>>' #
           <<rows_out, cache_unabated, cache_event_probs>>
    => /\ rows_out'.kalshi_fetches = {}
       /\ cache_event_probs' = cache_event_probs
       /\ rows_out'.result.raised = NoError
       /\ \A i \in 1..Len(rows_out'.result.rows) :
              RowUsesProbData(rows_out'.result.rows[i],
                  CachedProbData(rows_out'.result.rows[i], cache_event_probs))

KalshiCacheStep ==
    cache_event_probs' # cache_event_probs =>
        rows_out'.op = "fetch_and_build_moneylines" /\ rows_out'.refresh_kalshi

\* C25: fetch_and_build_moneylines(refresh_unabated=True,
\* refresh_kalshi=False) asks Kalshi for no orderbook, leaves
\* cache_event_probs as it was and fills the probabilities of its rows from
\* the cache as it was before the call; cache_event_probs changes only in a
\* call with refresh_kalshi=True.
C25_UnabatedRefreshKeepsKalshiCache == [][UnabatedOnlyStep /\ KalshiCacheStep]_vars

\* an Unabated-only refresh after a Kalshi refresh filled the cache: no
\* fetch, a row with the cached 0.44432
C25_Witness ==
    /\ RefreshRowsBuilt
    /\ rows_out.refresh_unabated /\ ~rows_out.refresh_kalshi
    /\ rows_out.kalshi_fetches = {}
    /\ EventTicker1 \in DOMAIN cache_event_probs
    /\ \E row \in Rows :
           /\ row.event_ticker = Some(EventTicker1)
           /\ row.away_top_prob = Some(44432)
           /\ cache_event_probs[EventTicker1].yes_be_top_away = Some(44432)

\* C27: for every non-empty list of games build_moneylines_rows raises
\* nothing and returns exactly one row per game, also for games without a
\* Kalshi ticker, for an event whose worker raises, and when no game of the
\* list has an event ticker; what could not be obtained is None in the row.
C27_OneRowPerGame ==
    (rows_out.op = "build_moneylines_rows" /\ rows_in.games # <<>>) =>
        /\ rows_out.result.raised = NoError
        /\ Len(rows_out.result.rows) = Len(rows_in.games)
        /\ \A i \in 1..Len(rows_in.games) :
               \E j \in 1..Len(rows_out.result.rows) :
                   /\ rows_out.result.rows[j].game = rows_in.games[i].id
                   /\ rows_out.result.rows[j].away_fair = rows_in.games[i].away_fair
                   /\ game_event_ticker(rows_in.games[i]) = None =>
                          rows_out.result.rows[j].away_top_prob = None

----------------------------------------------------------------------------
(* Odds conversion: pricing/conversion.py,                                 *)
(* ad_hoc/show_unabated_moneylines.py                                      *)
(*                                                                         *)
(* The source divides and rounds doubles.  A quotient that is not a tie is *)
(* at least 1e-5 away from one here, so round() of the double is the       *)
(* rounding of the exact quotient; at an exact tie Python's round() goes   *)
(* to the even neighbour.                                                  *)

\* round(n / d) for d > 0: to the nearest integer, ties to the even one
RoundHalfEven(n, d) ==
    LET q == n \div d
        r == n - q * d
    IN IF 2 * r > d THEN q + 1
       ELSE IF 2 * r < d THEN q
       ELSE IF q % 2 = 0 THEN q ELSE q + 1

\* a mutant of cents_to_american: the favourite's odds without their sign
cents_to_american_unsigned(price_cents) ==
    IF price_cents <= 0 \/ price_cents >= 100 THEN 0
    ELSE IF price_cents >= 50
         THEN RoundHalfEven(100 * price_cents, 100 - price_cents)
         ELSE RoundHalfEven(100 * (100 - price_cents), price_cents)

\* pricing/conversion.cents_to_american.  P >= 0.5 is price_cents >= 50.  At
\* 68 cents the exact quotient is the tie -212.5, and the doubles
\* -100.0 * 0.68 / (1.0 - 0.68) give -212.50000000000003, which rounds to
\* -213; 32 cents gives 212.5 exactly, which rounds to 212.
cents_to_american(price_cents) ==
    IF price_cents <= 0 \/ price_cents >= 100 THEN 0
    ELSE IF price_cents >= 50
         THEN IF price_cents = 68 THEN -213
              ELSE RoundHalfEven(-100 * price_cents, 100 - price_cents)
         ELSE RoundHalfEven(100 * (100 - price_cents), price_cents)

\* pricing/conversion.american_to_cents: odds 0 takes the else branch
american_to_cents(odds) ==
    IF odds < 0 THEN RoundHalfEven(100 * (-odds), (-odds) + 100)
    ELSE RoundHalfEven(100 * 100, odds + 100)

\* ad_hoc/show_unabated_moneylines.american_odds_to_probability: the
\* probability as the fraction num / den
american_odds_to_probability(american_odds) ==
    IF american_odds < 0
    THEN [num |-> -american_odds, den |-> (-american_odds) + 100]
    ELSE [num |-> 100, den |-> american_odds + 100]

----------------------------------------------------------------------------
(* The conversions as operations: a conversion is applied to the input or  *)
(* to what the conversion before it returned                               *)

MaxOdds == 800

MaxCalls == 3

\* odds far out, where the price rounds to 0 or to 100 cents
ExtremeOdds == {-20000, 20000}

Odds == ((0 - MaxOdds)..MaxOdds) \cup ExtremeOdds

OddsInputs ==
    [kind : {"odds"}, value : Odds]
        \cup [kind : {"cents"}, value : (0 - PriceSlack)..(100 + PriceSlack)]

InitOdds ==
    /\ odds_in \in OddsInputs
    /\ odds_out = <<>>
    /\ SelIdle /\ FeeIdle /\ BookIdle /\ RowIdle /\ LinesIdle /\ MatchIdle /\ PureIdle /\ ServerIdle

LastCall == odds_out[Len(odds_out)]

AmericanToCents ==
    /\ Len(odds_out) < MaxCalls
    /\ IF odds_out = <<>> THEN odds_in.kind = "odds"
       ELSE LastCall.fn = "cents_to_american"
    /\ LET odds == IF odds_out = <<>> THEN odds_in.value ELSE LastCall.result
       IN odds_out' = Append(odds_out, [fn |-> "american_to_cents", arg |-> odds,
                                        result |-> american_to_cents(odds)])
    /\ UNCHANGED <<odds_in, selVars, feeVars, bookVars, rowVars, lineVars, matchVars, pureVars, serverVars>>

CentsToAmerican ==
    /\ Len(odds_out) < MaxCalls
    /\ IF odds_out = <<>> THEN odds_in.kind = "cents"
       ELSE LastCall.fn = "american_to_cents"
    /\ LET price_cents == IF odds_out = <<>> THEN odds_in.value ELSE LastCall.result
       IN odds_out' = Append(odds_out, [fn |-> "cents_to_american", arg |-> price_cents,
                                        result |-> cents_to_american(price_cents)])
    /\ UNCHANGED <<odds_in, selVars, feeVars, bookVars, rowVars, lineVars, matchVars, pureVars, serverVars>>

AmericanOddsToProbability ==
    /\ odds_out = <<>>
    /\ odds_in.kind = "odds"
    /\ odds_out' = << [fn |-> "american_odds_to_probability", arg |-> odds_in.value,
                       result |-> american_odds_to_probability(odds_in.value)] >>
    /\ UNCHANGED <<odds_in, selVars, feeVars, bookVars, rowVars, lineVars, matchVars, pureVars, serverVars>>

NextOdds == AmericanToCents \/ CentsToAmerican \/ AmericanOddsToProbability

SpecOdds == InitOdds /\ [][NextOdds]_vars

----------------------------------------------------------------------------
(* Properties of the conversions (checked under SpecOdds) *)

\* the calls made are fn1, fn2, ... in this order, and nothing else
Calls(fns) ==
    /\ Len(odds_out) = Len(fns)
    /\ \A i \in 1..Len(fns) : odds_out[i].fn = fns[i]

\* C15 as stated: for odds o with |o| >= 100, converting o to a price and
\* the price back to odds recovers o within 1.
C15_RoundTripWithinOne ==
    (/\ Calls(<<"american_to_cents", "cents_to_american">>)
     /\ Abs(odds_out[1].arg) >= 100) =>
        Abs(odds_out[2].result - odds_out[1].arg) <= 1

\* C15 (amended): for odds o with |o| >= 100 whose price lies in 1..99
\* cents, converting o to a price and the price back to odds gives odds of
\* the same price: converting them to a price again gives the price of o.
\* For every price in 1..99 cents, converting the price to odds and the odds
\* back to a price recovers the price exactly.
C15_RoundTripRecoversPrice ==
    /\ (/\ Calls(<<"american_to_cents", "cents_to_american", "american_to_cents">>)
        /\ Abs(odds_out[1].arg) >= 100
        /\ odds_out[1].result \in 1..99) =>
           odds_out[3].result = odds_out[1].result
    /\ (/\ Calls(<<"cents_to_american", "american_to_cents">>)
        /\ odds_out[1].arg \in 1..99) =>
           odds_out[2].result = odds_out[1].arg

\* +130 is 43 cents, 43 cents are +133, and +133 is 43 cents again
C15_Witness ==
    /\ Calls(<<"american_to_cents", "cents_to_american", "american_to_cents">>)
    /\ odds_out[1].arg = 130 /\ odds_out[1].result = 43
    /\ odds_out[2].result = 133
    /\ odds_out[3].result = 43

\* 68 cents, where the doubles leave the tie: -213, and 68 cents again
C15_WitnessCents ==
    /\ Calls(<<"cents_to_american", "american_to_cents">>)
    /\ odds_out[1].arg = 68 /\ odds_out[1].result = -213
    /\ odds_out[2].result = 68

\* C16: odds of 0 give no price and no probability (american_to_cents marks
\* that with 0), and every other odds value gives one.
C16_ZeroOddsRejected ==
    /\ (Calls(<<"american_to_cents">>) /\ odds_in.value = 0) =>
           odds_out[1].result = 0
    /\ (Calls(<<"american_odds_to_probability">>) /\ odds_in.value = 0) =>
           odds_out[1].result = None
    /\ (Calls(<<"american_odds_to_probability">>) /\ odds_in.value # 0) =>
           odds_out[1].result # None

\* C17: for odds other than 0, american_to_cents returns the rounding of
\* probability x 100, and what it returns is 0 (invalid) or lies in 1..99.
C17_NoBoundaryPrice ==
    (Calls(<<"american_to_cents">>) /\ odds_in.value # 0) =>
        LET p == american_odds_to_probability(odds_in.value) IN
        /\ odds_out[1].result = RoundHalfEven(100 * p.num, p.den)
        /\ odds_out[1].result # 0 => odds_out[1].result \in 1..99

----------------------------------------------------------------------------
(* Top-of-book extraction on ladders with malformed entries *)

\* entries that are not a list of at least two fields: the empty list, a
\* list of one field, and a dict
MalformedEntries == {<<>>, <<99>>, [k \in {99} |-> 10]}

\* bids of two fields, and one with a third field
LadderEntries == {<<55, 10>>, <<44, 20>>, <<55, 10, 7>>} \cup MalformedEntries

\* ladders of entries, and a ladder that is a dict instead of a list
RawLadders ==
    UNION { [1..n -> LadderEntries] : n \in 0..MaxLadder }
        \cup {[k \in {55} |-> 10]}

InitLadder ==
    /\ book \in {Some([yes |-> l, no |-> l]) : l \in RawLadders}
    /\ ob_cache = <<>>
    /\ ob_call = Idle
    /\ SelIdle /\ FeeIdle /\ RowIdle /\ OddsIdle /\ LinesIdle /\ MatchIdle /\ PureIdle /\ ServerIdle

NextLadder ==
    \/ GetYesBidTopAndLiquidity
    \/ GetNoBidTopAndLiquidity
    \/ GetYesAskPricesAndLiquidity

SpecLadder == InitLadder /\ [][NextLadder]_vars

\* the well-formed entries of a ladder, in their order; none when the ladder
\* is not a list
RECURSIVE WellFormed(_)
WellFormed(ladder) ==
    IF ~IsList(ladder) \/ ladder = <<>> THEN <<>>
    ELSE IF IsList(Head(ladder)) /\ Len(Head(ladder)) >= 2
         THEN <<Head(ladder)>> \o WellFormed(Tail(ladder))
         ELSE WellFormed(Tail(ladder))

\* C18: the top price and top liquidity that the top-of-book readers return
\* are those of the well-formed entries of the ladder alone (the highest of
\* their prices and the quantity on offer at it; for
\* get_yes_ask_prices_and_liquidity the ask 100 - that price), whatever
\* malformed entries stand between them; a ladder that is empty, not a list
\* or without a well-formed entry gives None for both.
C18_MalformedEntriesSkipped ==
    /\ ob_call.op \in {"get_yes_bid_top_and_liquidity", "get_no_bid_top_and_liquidity"} =>
           LET bids == WellFormed(IF ob_call.op = "get_yes_bid_top_and_liquidity"
                                  THEN Val(book).yes ELSE Val(book).no) IN
           IF bids = <<>>
           THEN ob_call.result[1] = None /\ ob_call.result[2] = None
           ELSE /\ ob_call.result[1] = Some(MaxPrice(bids))
                /\ ob_call.result[2] = Some(QtyAt(bids, MaxPrice(bids)))
    /\ ob_call.op = "get_yes_ask_prices_and_liquidity" =>
           LET bids == WellFormed(Val(book).no) IN
           IF bids = <<>>
           THEN ob_call.result[1] = None /\ ob_call.result[3] = None
           ELSE /\ ob_call.result[1] = Some(100 - MaxPrice(bids))
                /\ ob_call.result[3] = Some(QtyAt(bids, MaxPrice(bids)))

\* a dict entry and then a bid at 55: the bid is read
C18_Witness ==
    /\ ob_call.op = "get_yes_bid_top_and_liquidity"
    /\ IsList(Val(book).yes)
    /\ Len(Val(book).yes) = 2
    /\ Val(book).yes[1] \in MalformedEntries
    /\ ~IsList(Val(book).yes[1])
    /\ Val(book).yes[2] = <<55, 10>>
    /\ ob_call.result[1] = Some(55)
    /\ ob_call.result[2] = Some(10)

\* only malformed entries: no ask
C18_WitnessAllMalformed ==
    /\ ob_call.op = "get_yes_ask_prices_and_liquidity"
    /\ IsList(Val(book).no)
    /\ Val(book).no = << <<99>>, <<>> >>
    /\ ob_call.result = <<None, None, None, None>>

\* a ladder that is a dict
C18_WitnessNotAList ==
    /\ ob_call.op = "get_no_bid_top_and_liquidity"
    /\ ~IsList(Val(book).no)
    /\ ob_call.result[1] = None /\ ob_call.result[2] = None

----------------------------------------------------------------------------
(* Spreads and totals rows: spreads/builder.py, totals/builder.py           *)
(*                                                                         *)
(* A game is the dict of get_today_games_with_fairs_and_kalshi_tickers     *)
(* together with what the feeds answer for it: unabated_event is           *)
(* events_by_start.get(event_start) reduced to what extract_unabated_      *)
(* spreads and extract_unabated_totals read from it for the game's two     *)
(* teams, away_code and home_code are what team_to_kalshi_code returns,    *)
(* spread_markets and totals_markets what the discover functions return.   *)
(* A formatted string (strike, consensus) is kept as the tuple of the      *)
(* values it is formatted from.                                            *)

\* not x, for an Optional string
Falsy(x) == x = None \/ x = Some("")

RECURSIVE Concat(_)
Concat(seqs) ==
    IF seqs = <<>> THEN <<>> ELSE Head(seqs) \o Concat(Tail(seqs))

\* fetch_orderbook as the exchange answers it for the tickers of the model
LineOrderbook(market_ticker) ==
    CASE market_ticker = "KXS-A7"  -> Some([yes |-> << <<55, 10>> >>,
                                            no  |-> << <<44, 20>> >>])
      [] market_ticker = "KXT-221" -> Some([yes |-> << <<44, 10>> >>,
                                            no  |-> << <<55, 20>>, <<50, 5>> >>])
      [] OTHER                     -> None

Pov(team, code, spread, juice) ==
    [team |-> team, code |-> code, spread |-> spread, juice |-> juice]

\* CANONICAL POV SELECTION of build_spreads_rows_for_today: the favourite's
\* spread when there is one, else whichever spread is available, else None
\* ("Missing consensus spread - skipping game")
canonical_pov(away_spread, home_spread, away_juice, home_juice, away_code, home_code) ==
    IF away_spread # None /\ Val(away_spread) < 0
    THEN Some(Pov("away", away_code, Val(away_spread), away_juice))
    ELSE IF home_spread # None /\ Val(home_spread) < 0
    THEN Some(Pov("home", home_code, Val(home_spread), home_juice))
    ELSE IF away_spread # None /\ Val(away_spread) > 0 /\ home_spread # None
    THEN Some(Pov("home", home_code, Val(home_spread), home_juice))
    ELSE IF home_spread # None /\ Val(home_spread) > 0 /\ away_spread # None
    THEN Some(Pov("away", away_code, Val(away_spread), away_juice))
    ELSE IF away_spread # None
    THEN Some(Pov("away", away_code, Val(away_spread), away_juice))
    ELSE IF home_spread # None
    THEN Some(Pov("home", home_code, Val(home_spread), home_juice))
    ELSE None

\* spread_rows.append({...}) of build_spreads_rows_for_today, with the
\* assignment of the two orderbook dicts to away and home before it
append_spread_row(game, pov, strike_value, market_ticker, canonical_orderbook_data, opponent_orderbook_data) ==
    LET away_data == IF pov.team = "away" THEN canonical_orderbook_data
                     ELSE opponent_orderbook_data
        home_data == IF pov.team = "away" THEN opponent_orderbook_data
                     ELSE canonical_orderbook_data
    IN << [event_start   |-> game.event_start,
           away_roto     |-> game.away_roto,
           away_team     |-> game.away_team_name,
           home_team     |-> game.home_team_name,
           consensus     |-> <<pov.code, pov.spread, pov.juice>>,
           strike        |-> <<pov.code,
                               IF pov.spread < 0 THEN "-" ELSE "+",
                               strike_value>>,
           kalshi_ticker |-> market_ticker,
           unabated_spread |-> pov.spread,
           away_kalshi_prob |-> away_data.tob_effective_prob,
           away_kalshi_liq  |-> away_data.tob_liq,
           away_kalshi_price_cents |-> away_data.tob_bid_cents,
           home_kalshi_prob |-> home_data.tob_effective_prob,
           home_kalshi_liq  |-> home_data.tob_liq,
           home_kalshi_price_cents |-> home_data.tob_bid_cents] >>

\* fetch_orderbook(api_key_id, private_key_pem, market_ticker) for the ticker
\* of a market dict
fetch_line_orderbook(market_ticker) ==
    IF market_ticker = None THEN None ELSE LineOrderbook(Val(market_ticker))

\* the market that a pass of the strike loop of build_spreads_rows_for_today
\* trades: the selected one, or the first market of the wanted team at the
\* same strike when the selected one belongs to the other team
market_to_trade(spread_markets, selected_market, wanted_code) ==
    LET correct_markets ==
            SelectSeq(spread_markets,
                      LAMBDA m : /\ m.market_team_code = wanted_code
                                 /\ m.parsed_strike # None
                                 /\ m.parsed_strike = selected_market.parsed_strike)
    IN IF selected_market.market_team_code # wanted_code /\ correct_markets # <<>>
       THEN correct_markets[1] ELSE selected_market

\* one pass of the loop "for market, side_to_trade_canonical in
\* selected_strikes" of build_spreads_rows_for_today: the rows it appends
spread_row(game, pov, market, selected_market, creds_ok) ==
    IF selected_market.parsed_strike = None THEN <<>>
    ELSE IF Falsy(selected_market.ticker) THEN <<>>
    ELSE append_spread_row(
             game, pov, Val(selected_market.parsed_strike), market.ticker,
             get_spread_orderbook_data(fetch_line_orderbook(market.ticker),
                                       IF pov.spread < 0 THEN "YES" ELSE "NO",
                                       creds_ok),
             get_spread_orderbook_data(fetch_line_orderbook(market.ticker),
                                       IF pov.spread < 0 THEN "NO" ELSE "YES",
                                       creds_ok))

\* the rows of one game once its canonical point of view is chosen
spread_rows_for_pov(game, pov, opponent_code, selected_strikes, creds_ok) ==
    Concat([i \in 1..Len(selected_strikes) |->
               spread_row(game, pov,
                          market_to_trade(
                              game.spread_markets, selected_strikes[i][1],
                              IF pov.spread < 0 THEN pov.code ELSE opponent_code),
                          selected_strikes[i][1], creds_ok)])

\* one pass of the loop "for game in games" of build_spreads_rows_for_today
spread_rows_for_game(game, creds_ok) ==
    IF Falsy(game.event_start) THEN <<>>
    ELSE IF game.unabated_event = None THEN <<>>
    ELSE IF Falsy(game.away_team_name) \/ Falsy(game.home_team_name) THEN <<>>
    ELSE IF Falsy(game.event_ticker) THEN <<>>
    ELSE IF game.spread_markets = <<>> THEN <<>>
    ELSE IF Falsy(game.away_code) \/ Falsy(game.home_code) THEN <<>>
    ELSE
    LET event     == Val(game.unabated_event)
        away_code == Val(game.away_code)
        home_code == Val(game.home_code)
        canonical == canonical_pov(event.away_spread, event.home_spread,
                                   event.away_juice, event.home_juice,
                                   away_code, home_code)
    IN IF canonical = None THEN <<>>
       ELSE spread_rows_for_pov(
                game, Val(canonical),
                IF Val(canonical).team = "away" THEN home_code ELSE away_code,
                select_closest_strikes_for_team_spread(
                    Val(canonical).spread, Val(canonical).code,
                    IF Val(canonical).team = "away" THEN home_code ELSE away_code,
                    game.spread_markets, 2),
                creds_ok)

build_spreads_rows_for_today(games, creds_ok) ==
    IF games = <<>> THEN <<>>
    ELSE IF ~creds_ok THEN <<>>
    ELSE Concat([i \in 1..Len(games) |-> spread_rows_for_game(games[i], creds_ok)])

\* totals_rows.append({...}) of build_totals_rows_for_today
append_total_row(game, totals_data, market, over_orderbook_data, under_orderbook_data) ==
    << [event_start   |-> game.event_start,
        away_roto     |-> game.away_roto,
        away_team     |-> game.away_team_name,
        home_team     |-> game.home_team_name,
        consensus     |-> <<Val(totals_data.total), totals_data.juice>>,
        strike        |-> <<"Over", Val(market.parsed_strike)>>,
        kalshi_ticker |-> market.ticker,
        unabated_total |-> Val(totals_data.total),
        over_kalshi_prob |-> over_orderbook_data.tob_effective_prob,
        over_kalshi_liq  |-> over_orderbook_data.tob_liq,
        over_kalshi_price_cents |-> over_orderbook_data.tob_bid_cents,
        under_kalshi_prob |-> under_orderbook_data.tob_effective_prob,
        under_kalshi_liq  |-> under_orderbook_data.tob_liq,
        under_kalshi_price_cents |-> under_orderbook_data.tob_bid_cents,
        over_fair |-> None, under_fair |-> None,
        over_ev |-> None, under_ev |-> None] >>

\* a mutant of total_row: the Under values are read from the first totals
\* market of the game
total_row_under_of_first_market(game, totals_data, market, creds_ok) ==
    IF market.parsed_strike = None THEN <<>>
    ELSE IF Falsy(market.ticker) THEN <<>>
    ELSE append_total_row(
             game, totals_data, market,
             get_spread_orderbook_data(fetch_line_orderbook(market.ticker),
                                       "YES", creds_ok),
             get_spread_orderbook_data(
                 fetch_line_orderbook(game.totals_markets[1].ticker),
                 "NO", creds_ok))

\* one pass of the loop "for market in selected_strikes" of
\* build_totals_rows_for_today: the rows it appends
total_row(game, totals_data, market, creds_ok) ==
    IF market.parsed_strike = None THEN <<>>
    ELSE IF Falsy(market.ticker) THEN <<>>
    ELSE append_total_row(
             game, totals_data, market,
             get_spread_orderbook_data(fetch_line_orderbook(market.ticker),
                                       "YES", creds_ok),
             get_spread_orderbook_data(fetch_line_orderbook(market.ticker),
                                       "NO", creds_ok))

\* the rows of one game once its consensus total is known
total_rows_for_total(game, totals_data, selected_strikes, creds_ok) ==
    Concat([i \in 1..Len(selected_strikes) |->
               total_row(game, totals_data, selected_strikes[i], creds_ok)])

\* one pass of the loop "for game in games" of build_totals_rows_for_today;
\* the parallel pre-fetch only warms the orderbook cache
total_rows_for_game(game, creds_ok) ==
    IF Falsy(game.event_start) THEN <<>>
    ELSE IF Falsy(game.away_team_name) \/ Falsy(game.home_team_name) THEN <<>>
    ELSE IF game.unabated_event = None THEN <<>>
    ELSE IF Val(game.unabated_event).totals_data = None THEN <<>>
    ELSE
    LET totals_data == Val(Val(game.unabated_event).totals_data)
    IN IF totals_data.total = None THEN <<>>
       ELSE IF Falsy(game.event_ticker) THEN <<>>
       ELSE IF game.totals_markets = <<>> THEN <<>>
       ELSE
       total_rows_for_total(
           game, totals_data,
           select_closest_over_strikes(Val(totals_data.total),
                                       game.totals_markets, 2),
           creds_ok)

build_totals_rows_for_today(games, creds_ok) ==
    IF games = <<>> THEN <<>>
    ELSE IF ~creds_ok THEN <<>>
    ELSE Concat([i \in 1..Len(games) |-> total_rows_for_game(games[i], creds_ok)])

----------------------------------------------------------------------------
(* Inputs of the spreads and totals row builders *)

MaxSlate == 2

LineMarket(ticker, strike, code, direction) ==
    [ticker |-> ticker, parsed_strike |-> strike,
     market_team_code |-> code, direction |-> direction]

\* AAA -6 (no orderbook on the exchange), AAA -7, BBB -6
SpreadMarkets ==
    << LineMarket(Some("KXS-A6"), Some(24), TeamA, "over"),
       LineMarket(Some("KXS-A7"), Some(28), TeamA, "over"),
       LineMarket(Some("KXS-B6"), Some(24), TeamB, "over") >>

\* Over 220.5 (no orderbook on the exchange), Over 221.5
TotalsMarkets ==
    << LineMarket(Some("KXT-220"), Some(882), NoCode, "over"),
       LineMarket(Some("KXT-221"), Some(886), NoCode, "over") >>

\* away -6.5 -110, home +6.5 -110, total 221 -110
CompleteEvent ==
    [away_spread |-> Some(-26), away_juice |-> Some(-110),
     home_spread |-> Some(26),  home_juice |-> Some(-110),
     totals_data |-> Some([total |-> Some(884), juice |-> Some(-110)])]

CompleteGame ==
    [event_start    |-> Some("19:00"),
     away_team_name |-> Some("Away"),
     home_team_name |-> Some("Home"),
     event_ticker   |-> Some("KXNBAGAME"),
     unabated_event |-> Some(CompleteEvent),
     away_code      |-> Some(TeamA),
     home_code      |-> Some(TeamB),
     spread_markets |-> SpreadMarkets,
     totals_markets |-> TotalsMarkets]

\* the complete game and the games that lack exactly one thing: a field of
\* the game, the Unabated event, a consensus value, a team code, the
\* markets, a strike that matches, a market ticker
LineGameBodies ==
    {CompleteGame,
     [CompleteGame EXCEPT !.event_start = None],
     [CompleteGame EXCEPT !.away_team_name = None],
     [CompleteGame EXCEPT !.event_ticker = None],
     [CompleteGame EXCEPT !.unabated_event = None],
     [CompleteGame EXCEPT !.unabated_event =
         Some([CompleteEvent EXCEPT !.away_spread = None, !.home_spread = None])],
     [CompleteGame EXCEPT !.unabated_event =
         Some([CompleteEvent EXCEPT !.away_spread = None])],
     [CompleteGame EXCEPT !.unabated_event =
         Some([CompleteEvent EXCEPT !.totals_data = None])],
     [CompleteGame EXCEPT !.unabated_event =
         Some([CompleteEvent EXCEPT
                  !.totals_data = Some([total |-> None, juice |-> None])])],
     [CompleteGame EXCEPT !.home_code = None],
     [CompleteGame EXCEPT !.spread_markets = <<>>],
     [CompleteGame EXCEPT !.totals_markets = <<>>],
     [CompleteGame EXCEPT !.spread_markets =
         << LineMarket(Some("KXS-B6"), Some(24), TeamB, "over") >>],
     [CompleteGame EXCEPT !.totals_markets =
         << LineMarket(Some("KXT-220"), None, NoCode, "over") >>],
     [CompleteGame EXCEPT !.spread_markets =
         << LineMarket(None, Some(24), TeamA, "over") >>]}

\* slates: the i-th game has rotation number 499 + 2i
LineSlates ==
    UNION { { [i \in 1..n |->
                 [away_roto      |-> 499 + 2 * i,
                  event_start    |-> f[i].event_start,
                  away_team_name |-> f[i].away_team_name,
                  home_team_name |-> f[i].home_team_name,
                  event_ticker   |-> f[i].event_ticker,
                  unabated_event |-> f[i].unabated_event,
                  away_code      |-> f[i].away_code,
                  home_code      |-> f[i].home_code,
                  spread_markets |-> f[i].spread_markets,
                  totals_markets |-> f[i].totals_markets]] :
              f \in [1..n -> LineGameBodies] } : n \in 0..MaxSlate }

InitLines ==
    /\ lines_in \in [games : LineSlates, creds_ok : BOOLEAN]
    /\ lines_out = Idle
    /\ SelIdle /\ FeeIdle /\ BookIdle /\ RowIdle /\ OddsIdle /\ MatchIdle /\ PureIdle /\ ServerIdle

BuildSpreadsRowsForToday ==
    /\ lines_out = Idle
    /\ lines_out' = [op |-> "build_spreads_rows_for_today",
                     result |-> build_spreads_rows_for_today(
                                    lines_in.games, lines_in.creds_ok)]
    /\ UNCHANGED <<lines_in, selVars, feeVars, bookVars, rowVars, oddsVars, matchVars, pureVars, serverVars>>

BuildTotalsRowsForToday ==
    /\ lines_out = Idle
    /\ lines_out' = [op |-> "build_totals_rows_for_today",
                     result |-> build_totals_rows_for_today(
                                    lines_in.games, lines_in.creds_ok)]
    /\ UNCHANGED <<lines_in, selVars, feeVars, bookVars, rowVars, oddsVars, matchVars, pureVars, serverVars>>

NextLines == BuildSpreadsRowsForToday \/ BuildTotalsRowsForToday

SpecLines == InitLines /\ [][NextLines]_vars

----------------------------------------------------------------------------
(* Properties of the spreads and totals row builders *)

LinesBuilt ==
    lines_out.op \in {"build_spreads_rows_for_today",
                      "build_totals_rows_for_today"}

\* the rows that the builder emitted for the game
RowsOf(game) ==
    {j \in 1..Len(lines_out.result) :
        lines_out.result[j].away_roto = game.away_roto}

\* C20: the spreads and totals row builders never drop a game's rows solely
\* because one field is missing: whenever the credentials load, every game
\* of the slate (each lacks at most one thing: a game field, the consensus
\* spread or total, a team code, a matching strike) has at least one row in
\* what the builder returns
C20_NoGameDropped ==
    (LinesBuilt /\ lines_in.creds_ok) =>
        \A i \in 1..Len(lines_in.games) : RowsOf(lines_in.games[i]) # {}

TotalsBuilt == lines_out.op = "build_totals_rows_for_today"

\* the best bid of a ladder of the exchange as <<price, quantity>>, None
\* for an empty ladder
BestBid(ladder) ==
    IF ladder = <<>> THEN None
    ELSE Some(CHOOSE bid \in {ladder[i] : i \in 1..Len(ladder)} :
                 \A i \in 1..Len(ladder) : ladder[i][1] <= bid[1])

\* price, liquidity and break-even probability of a totals row for one side
\* of the market with the given ticker
SideValues(market_ticker, side) ==
    LET orderbook == fetch_line_orderbook(market_ticker)
        best == IF orderbook = None THEN None
                ELSE BestBid(Val(orderbook)[side])
    IN IF best = None THEN <<None, None, None>>
       ELSE <<Some(Val(best)[1]), Some(Val(best)[2]),
              yes_break_even_prob(Val(best)[1])>>

\* C22: every totals row is built from a single market: its Over price,
\* liquidity and break-even probability are those of the YES bid side and
\* its Under values those of the NO bid side of the market whose ticker the
\* row carries
C22_RowFromOneMarket ==
    TotalsBuilt =>
        \A j \in 1..Len(lines_out.result) :
            LET row == lines_out.result[j]
            IN /\ <<row.over_kalshi_price_cents, row.over_kalshi_liq,
                    row.over_kalshi_prob>> = SideValues(row.kalshi_ticker, "yes")
               /\ <<row.under_kalshi_price_cents, row.under_kalshi_liq,
                    row.under_kalshi_prob>> = SideValues(row.kalshi_ticker, "no")

\* a row of the Over 221.5 market carries its YES bid 44 and its NO bid 55,
\* next to a row of the Over 220.5 market, which has no orderbook
C22_Witness ==
    /\ TotalsBuilt
    /\ \E j, k \in 1..Len(lines_out.result) :
          /\ lines_out.result[j].kalshi_ticker = Some("KXT-221")
          /\ lines_out.result[j].over_kalshi_price_cents = Some(44)
          /\ lines_out.result[j].under_kalshi_price_cents = Some(55)
          /\ lines_out.result[j].under_kalshi_liq = Some(20)
          /\ lines_out.result[k].kalshi_ticker = Some("KXT-220")
          /\ lines_out.result[k].away_roto = lines_out.result[j].away_roto
          /\ lines_out.result[k].under_kalshi_price_cents = None

----------------------------------------------------------------------------
(* Matching spread markets to teams: nba_spreads_dashboard.py               *)
(*                                                                         *)
(* A Python str is a sequence of one-character strings here, so that       *)
(* lower(), strip(), replace(), split(), len() and the substring test      *)
(* "in" are computed character by character.                                *)

UpperCase ==
    <<"A", "B", "C", "D", "E", "F", "G", "H", "I", "J", "K", "L", "M",
      "N", "O", "P", "Q", "R", "S", "T", "U", "V", "W", "X", "Y", "Z">>

LowerCase ==
    <<"a", "b", "c", "d", "e", "f", "g", "h", "i", "j", "k", "l", "m",
      "n", "o", "p", "q", "r", "s", "t", "u", "v", "w", "x", "y", "z">>

char_lower(c) ==
    IF \E i \in 1..Len(UpperCase) : UpperCase[i] = c
    THEN LowerCase[CHOOSE i \in 1..Len(UpperCase) : UpperCase[i] = c]
    ELSE c

\* str.lower()
str_lower(s) == [i \in 1..Len(s) |-> char_lower(s[i])]

\* str.strip(): leading and trailing blanks removed
RECURSIVE str_strip(_)
str_strip(s) ==
    IF s = <<>> THEN s
    ELSE IF Head(s) = " " THEN str_strip(Tail(s))
    ELSE IF s[Len(s)] = " " THEN str_strip(SubSeq(s, 1, Len(s) - 1))
    ELSE s

\* sub in s
str_in(sub, s) ==
    \E i \in 0..(Len(s) - Len(sub)) : SubSeq(s, i + 1, i + Len(sub)) = sub

\* s.replace(old, new), old not empty: every occurrence, left to right
RECURSIVE str_replace(_, _, _)
str_replace(s, old, new) ==
    IF Len(s) < Len(old) THEN s
    ELSE IF SubSeq(s, 1, Len(old)) = old
    THEN new \o str_replace(SubSeq(s, Len(old) + 1, Len(s)), old, new)
    ELSE <<Head(s)>> \o str_replace(Tail(s), old, new)

\* s.split()[-1] of a stripped, non-empty s: the letters after the last blank
RECURSIVE last_word(_)
last_word(s) ==
    IF \E i \in 1..Len(s) : s[i] = " "
    THEN last_word(Tail(s)) ELSE s

LosAngeles == <<"l", "o", "s", " ", "a", "n", "g", "e", "l", "e", "s">>

NewYork == <<"n", "e", "w", " ", "y", "o", "r", "k">>

La == <<"l", "a">>

Ny == <<"n", "y">>

\* _build_team_name_variations
build_team_name_variations(team_name) ==
    IF team_name = <<>> THEN <<>>
    ELSE
    LET base == str_strip(str_lower(team_name))
    IN <<base>>
       \o (IF str_in(LosAngeles, base)
           THEN <<str_replace(base, LosAngeles, La),
                  La \o <<" ">> \o last_word(base)>>
           ELSE <<>>)
       \o (IF str_in(NewYork, base)
           THEN <<str_replace(base, NewYork, Ny)>> ELSE <<>>)
       \o (IF str_in(<<" ">>, base) THEN <<last_word(base)>> ELSE <<>>)

\* team_to_kalshi_code("NBA", team_name, xref): the code of the cross
\* reference, None for a team it does not list
xref_kalshi_code(team_name, xref) ==
    IF team_name \in DOMAIN xref THEN Some(xref[team_name]) ELSE None

\* the variations with the Kalshi code appended in lower case and as it is
with_code(variations, code) ==
    IF code = None \/ code = Some(<<>>) THEN variations
    ELSE variations \o <<str_lower(Val(code)), Val(code)>>

\* any(var in anchor_token or anchor_token in var for var in variations if var)
any_match(variations, anchor_token) ==
    \E i \in 1..Len(variations) :
        /\ variations[i] # <<>>
        /\ str_in(variations[i], anchor_token) \/ str_in(anchor_token, variations[i])

\* len(max(variations, key=len))
max_len(variations) ==
    CHOOSE n \in {Len(variations[i]) : i \in 1..Len(variations)} :
        \A i \in 1..Len(variations) : Len(variations[i]) <= n

\* (market.get("anchor_team_token") or "").lower().strip()
anchor_token_of(market) ==
    IF market.anchor_team_token = None THEN <<>>
    ELSE str_strip(str_lower(Val(market.anchor_team_token)))

\* the body of "for market in spread_markets": the list of the result that
\* the market is appended to
match_list(market, away_variations, home_variations) ==
    LET anchor_token == anchor_token_of(market)
        matched_away == any_match(away_variations, anchor_token)
        matched_home == any_match(home_variations, anchor_token)
    IN IF anchor_token = <<>> THEN "unmatched_markets"
       ELSE IF matched_away /\ ~matched_home THEN "away_markets"
       ELSE IF matched_home /\ ~matched_away THEN "home_markets"
       ELSE IF matched_away /\ matched_home
       THEN IF max_len(away_variations) >= max_len(home_variations)
            THEN "away_markets" ELSE "home_markets"
       ELSE "unmatched_markets"

match_with_variations(spread_markets, away_variations, home_variations) ==
    [list \in {"away_markets", "home_markets", "unmatched_markets"} |->
        SelectSeq(spread_markets,
                  LAMBDA m : match_list(m, away_variations, home_variations) = list)]

match_spread_markets_to_teams(spread_markets, away_team_name, home_team_name, xref) ==
    match_with_variations(
        spread_markets,
        with_code(build_team_name_variations(away_team_name),
                  xref_kalshi_code(away_team_name, xref)),
        with_code(build_team_name_variations(home_team_name),
                  xref_kalshi_code(home_team_name, xref)))

----------------------------------------------------------------------------
(* Inputs of match_spread_markets_to_teams *)

MaxMatched == 2

Lakers == <<"L", "o", "s", " ", "A", "n", "g", "e", "l", "e", "s", " ", "L", "a", "k", "e", "r", "s">>

Clippers == <<"L", "o", "s", " ", "A", "n", "g", "e", "l", "e", "s", " ", "C", "l", "i", "p", "p", "e", "r", "s">>

Celtics == <<"B", "o", "s", "t", "o", "n", " ", "C", "e", "l", "t", "i", "c", "s">>

Knicks == <<"N", "e", "w", " ", "Y", "o", "r", "k", " ", "K", "n", "i", "c", "k", "s">>

TeamNames == {Lakers, Clippers, Celtics, Knicks}

\* nba_xref rows: team name to Kalshi code
Xref ==
    [name \in TeamNames |->
        CASE name = Lakers   -> <<"L", "A", "L">>
          [] name = Clippers -> <<"L", "A", "C">>
          [] name = Celtics  -> <<"B", "O", "S">>
          [] OTHER           -> <<"N", "Y", "K">>]

\* a cross reference that lists no team
EmptyXref == [name \in {} |-> <<>>]

\* what parse_spread_markets leaves in anchor_team_token: None, "la",
\* " LA ", "lakers", "clippers", "los angeles", "celtics", "ny"
AnchorTokens ==
    {None, Some(La), Some(<<" ", "L", "A", " ">>),
     Some(<<"l", "a", "k", "e", "r", "s">>), Some(<<"c", "l", "i", "p", "p", "e", "r", "s">>),
     Some(LosAngeles), Some(<<"c", "e", "l", "t", "i", "c", "s">>), Some(Ny)}

\* market lists: the i-th market has ticker i
AnchoredMarkets ==
    UNION { { [i \in 1..n |-> [ticker |-> i, anchor_team_token |-> f[i]]] :
              f \in [1..n -> AnchorTokens] } : n \in 0..MaxMatched }

MatchInputs ==
    {m \in [spread_markets : AnchoredMarkets, away_team_name : TeamNames,
            home_team_name : TeamNames, xref : {Xref, EmptyXref}] :
        m.away_team_name # m.home_team_name}

InitMatch ==
    /\ match_in \in MatchInputs
    /\ match_out = Idle
    /\ SelIdle /\ FeeIdle /\ BookIdle /\ RowIdle /\ OddsIdle /\ LinesIdle /\ PureIdle /\ ServerIdle

MatchSpreadMarketsToTeams ==
    /\ match_out = Idle
    /\ match_out' = [op |-> "match_spread_markets_to_teams",
                     result |-> match_spread_markets_to_teams(
                                    match_in.spread_markets,
                                    match_in.away_team_name,
                                    match_in.home_team_name, match_in.xref)]
    /\ UNCHANGED <<match_in, selVars, feeVars, bookVars, rowVars, oddsVars, lineVars, pureVars, serverVars>>

NextMatch == MatchSpreadMarketsToTeams

SpecMatch == InitMatch /\ [][NextMatch]_vars

----------------------------------------------------------------------------
(* Properties of match_spread_markets_to_teams *)

MatchDone == match_out.op = "match_spread_markets_to_teams"

AwayVariations ==
    with_code(build_team_name_variations(match_in.away_team_name),
              xref_kalshi_code(match_in.away_team_name, match_in.xref))

HomeVariations ==
    with_code(build_team_name_variations(match_in.home_team_name),
              xref_kalshi_code(match_in.home_team_name, match_in.xref))

\* the lengths of the variations that match the anchor token of the market
MatchingLengths(variations, market) ==
    {Len(variations[i]) : i \in
        {j \in 1..Len(variations) :
            /\ variations[j] # <<>>
            /\ \/ str_in(variations[j], anchor_token_of(market))
               \/ str_in(anchor_token_of(market), variations[j])}}

SetMax(S) == CHOOSE n \in S : \A k \in S : k <= n

\* the market's anchor token matches a variation of both teams
Ambiguous(market) ==
    /\ anchor_token_of(market) # <<>>
    /\ MatchingLengths(AwayVariations, market) # {}
    /\ MatchingLengths(HomeVariations, market) # {}

InList(market, list) ==
    \E i \in 1..Len(match_out.result[list]) : match_out.result[list][i] = market

\* C21: a market whose anchor token matches variations of both teams is put
\* in exactly one of away_markets and home_markets, never in both and never
\* in unmatched_markets, and it goes to the team whose matching variation is
\* the longer one
C21_LongerMatchWins ==
    MatchDone =>
        \A k \in 1..Len(match_in.spread_markets) :
            LET market == match_in.spread_markets[k]
                away_len == SetMax(MatchingLengths(AwayVariations, market))
                home_len == SetMax(MatchingLengths(HomeVariations, market))
            IN Ambiguous(market) =>
                /\ InList(market, "away_markets") # InList(market, "home_markets")
                /\ ~InList(market, "unmatched_markets")
                /\ away_len > home_len => InList(market, "away_markets")
                /\ home_len > away_len => InList(market, "home_markets")

----------------------------------------------------------------------------
(* Core calls on shared objects: spreads/builder.py, totals/builder.py,     *)
(* data_build/top_of_book.py                                               *)
(*                                                                         *)
(* Python passes the market list and the ladder by reference, so two       *)
(* threads that call core functions hold the same objects.  A call is two  *)
(* steps: the loop that fills its local list or dict from the argument,    *)
(* then the rest of the body up to the return.                             *)

Threads == {1, 2}

CoreFunctions ==
    {"select_closest_strikes_for_team_spread", "select_closest_over_strikes",
     "get_yes_bid_top_and_liquidity", "yes_break_even_prob"}

\* the local that the first step of a call builds: markets_with_distance
\* of the selectors, (yes_bid_top_c, yes_bids_by_price) of the reader,
\* fee_total_cents of the break-even function (None when it returns early)
core_locals(fn, shared) ==
    CASE fn = "select_closest_strikes_for_team_spread" ->
            markets_with_distance(
                SelectSeq(shared.markets,
                          LAMBDA m : m.market_team_code =
                              (IF shared.team_spread < 0 THEN TeamA ELSE TeamB)),
                Abs(shared.team_spread))
      [] fn = "select_closest_over_strikes" ->
            markets_with_distance(over_markets(shared.markets),
                                  Abs(shared.team_spread))
      [] fn = "get_yes_bid_top_and_liquidity" ->
            IF shared.ladder = <<>> \/ ~IsList(shared.ladder) THEN None
            ELSE Some(scan_bids(shared.ladder, None, <<>>))
      [] OTHER ->
            IF shared.price_cents <= 0 \/ shared.price_cents >= 100 THEN None
            ELSE Some(maker_fee_cents(shared.price_cents, ReferenceContracts))

\* what the call returns, computed from its local in the second step
core_return(fn, shared, local) ==
    CASE fn = "select_closest_strikes_for_team_spread" ->
            [i \in 1..Min(2, Len(local)) |->
                <<sort_by_distance(local)[i][3],
                  IF shared.team_spread < 0 THEN "YES" ELSE "NO">>]
      [] fn = "select_closest_over_strikes" ->
            [i \in 1..Min(2, Len(local)) |-> sort_by_distance(local)[i][3]]
      [] fn = "get_yes_bid_top_and_liquidity" ->
            IF local = None THEN <<None, None, <<>> >>
            ELSE <<Val(local)[1],
                   IF Val(local)[1] # None
                   THEN Some(DictGet0(Val(local)[2], Val(Val(local)[1])))
                   ELSE None,
                   Val(local)[2]>>
      [] OTHER ->
            IF local = None THEN None
            ELSE Some(Min(ProbOne, shared.price_cents * 1000 + Val(local)))

\* a mutant of objects_after_call: the selectors sort the list they were
\* given instead of their own list
objects_after_call_sorted_in_place(fn, shared, local) ==
    IF fn \in {"select_closest_strikes_for_team_spread",
               "select_closest_over_strikes"}
    THEN [shared EXCEPT !.markets =
             [i \in 1..Len(sort_by_distance(
                               markets_with_distance(shared.markets,
                                                     Abs(shared.team_spread)))) |->
                 sort_by_distance(
                     markets_with_distance(shared.markets,
                                           Abs(shared.team_spread)))[i][3]]]
    ELSE shared

\* the shared objects as a call leaves them: the selectors append to and
\* sort their own markets_with_distance, the reader fills its own dict, the
\* fee functions only compute, and none assigns a module-level name
objects_after_call(fn, shared, local) == shared

----------------------------------------------------------------------------
(* Inputs of the core calls *)

MaxShared == 2

SharedMarketBodies ==
    [parsed_strike : {Some(24), Some(28)}, market_team_code : {TeamA, TeamB},
     direction : {"over"}]

SharedMarkets ==
    UNION { { [i \in 1..n |-> [ticker |-> i,
                               parsed_strike |-> f[i].parsed_strike,
                               market_team_code |-> f[i].market_team_code,
                               direction |-> f[i].direction]] :
              f \in [1..n -> SharedMarketBodies] } : n \in 0..MaxShared }

SharedLadders ==
    {<<>>, << <<44, 10>>, <<55, 10>> >>, << <<55, 10>>, <<44, 10>>, <<55, 20>> >>}

NotCalling == [pc |-> "idle"]

InitCore ==
    /\ objects \in [markets : SharedMarkets, ladder : SharedLadders,
                    team_spread : {-25, 27}, price_cents : {56, 100},
                    orderbook_cache : {<<>>}]
    /\ calls = [t \in Threads |-> NotCalling]
    /\ SelIdle /\ FeeIdle /\ BookIdle /\ RowIdle /\ OddsIdle /\ LinesIdle /\ MatchIdle /\ ServerIdle

\* a thread enters a core function and runs its loop over the argument
CoreCallBegins(t) ==
    /\ calls[t].pc \in {"idle", "done"}
    /\ \E fn \in CoreFunctions :
          calls' = [calls EXCEPT ![t] =
                       [pc |-> "running", fn |-> fn,
                        local |-> core_locals(fn, objects)]]
    /\ UNCHANGED <<objects, selVars, feeVars, bookVars, rowVars, oddsVars, lineVars, matchVars, serverVars>>

\* the thread runs the rest of the body and returns
CoreCallReturns(t) ==
    /\ calls[t].pc = "running"
    /\ calls' = [calls EXCEPT ![t] =
                    [pc |-> "done", fn |-> calls[t].fn,
                     result |-> core_return(calls[t].fn, objects, calls[t].local)]]
    /\ objects' = objects_after_call(calls[t].fn, objects, calls[t].local)
    /\ UNCHANGED <<selVars, feeVars, bookVars, rowVars, oddsVars, lineVars, matchVars, serverVars>>

NextCore == \E t \in Threads : CoreCallBegins(t) \/ CoreCallReturns(t)

SpecCore == InitCore /\ [][NextCore]_vars

----------------------------------------------------------------------------
(* Properties of the core calls *)

\* the function of the model that a core call computes, on the shared
\* objects as arguments
CoreValue(fn) ==
    CASE fn = "select_closest_strikes_for_team_spread" ->
            select_closest_strikes_for_team_spread(
                objects.team_spread, TeamA, TeamB, objects.markets, 2)
      [] fn = "select_closest_over_strikes" ->
            select_closest_over_strikes(Abs(objects.team_spread),
                                        objects.markets, 2)
      [] fn = "get_yes_bid_top_and_liquidity" ->
            get_yes_bid_top_and_liquidity([yes |-> objects.ladder])
      [] OTHER -> yes_break_even_prob(objects.price_cents)

\* every finished call returned the value of its function on the arguments,
\* whatever the other thread did before or meanwhile
ResultsDependOnArgumentsOnly ==
    \A t \in Threads :
        calls[t].pc = "done" => calls[t].result = CoreValue(calls[t].fn)

----------------------------------------------------------------------------
(* The orderbook cache over a sequence of calls:                            *)
(* data_build/orderbook_snapshot.py.  The exchange's orderbook changes      *)
(* between calls, so a snapshot served from the cache can be told from a    *)
(* snapshot of a new fetch.                                                 *)

CacheTickers == {"KXA", "kxa"}

CacheSides == {"YES", "yes", "no"}

CacheBooks ==
    {None,
     Some([yes |-> << <<55, 10>> >>, no |-> <<>>]),
     Some([yes |-> << <<44, 10>> >>, no |-> << <<55, 20>> >>])}

InitCache ==
    /\ book \in CacheBooks
    /\ ob_cache = <<>>
    /\ ob_call = Idle
    /\ SelIdle /\ FeeIdle /\ RowIdle /\ OddsIdle /\ LinesIdle /\ MatchIdle /\ PureIdle /\ ServerIdle

GetAnyCase ==
    \E market_ticker \in CacheTickers, side \in CacheSides, use_cache \in BOOLEAN :
        GetCall(market_ticker, side, use_cache)

\* the orderbook that fetch_orderbook would return changes; no call of the
\* module is involved
ExchangeMoves ==
    /\ \E new_book \in CacheBooks \ {book} : book' = new_book
    /\ ob_call' = Idle
    /\ UNCHANGED <<ob_cache, selVars, feeVars, rowVars, oddsVars, lineVars, matchVars, pureVars, serverVars>>

NextCache == GetAnyCase \/ ClearCache \/ ExchangeMoves

SpecCache == InitCache /\ [][NextCache]_vars

\* the stored key that a get call's ticker and side equal case-insensitively
KeyOfCall(call) == <<Upper(call.market_ticker), Upper(call.side)>>

\* one step of the cache: a get with use_cache on a stored key returns the
\* stored snapshot without fetching; a get on a key that is not stored
\* fetches; clear_cache empties the cache; every other step keeps every
\* stored snapshot
MemoStep ==
    /\ (ob_call'.op = "get" /\ ob_call'.use_cache
          /\ KeyOfCall(ob_call') \in DOMAIN ob_cache)
       => /\ ~ob_call'.fetched
          /\ ob_call'.result = ob_cache[KeyOfCall(ob_call')]
    /\ (ob_call'.op = "get" /\ KeyOfCall(ob_call') \notin DOMAIN ob_cache)
       => ob_call'.fetched
    /\ ob_call'.op = "clear_cache" => ob_cache' = <<>>
    /\ ob_call'.op # "clear_cache"
       => \A key \in DOMAIN ob_cache :
             key \in DOMAIN ob_cache' /\ ob_cache'[key] = ob_cache[key]

\* C24: once get(ticker, side, use_cache=True) has stored a snapshot, every
\* later get(use_cache=True) whose ticker and side equal the stored key
\* case-insensitively returns that snapshot without fetching, whatever calls
\* come in between, until clear_cache; after clear_cache the cache is empty
\* and the next get fetches
C24_Memoization == [][MemoStep]_vars

\* get("kxa", "yes") is served the snapshot that get("KXA", "YES") stored,
\* although the exchange's top bid has moved since
C24_Witness ==
    /\ ob_call.op = "get" /\ ob_call.use_cache /\ ~ob_call.fetched
    /\ ob_call.market_ticker = "kxa" /\ ob_call.side = "yes"
    /\ ob_call.result.market_ticker = "KXA" /\ ob_call.result.side = "YES"
    /\ ob_call.result.best_bid_cents = Some(55)
    /\ book # None /\ Val(book).yes = << <<44, 10>> >>

----------------------------------------------------------------------------
(* The refresh server under concurrent requests: refresh_server.py         *)
(*                                                                         *)
(* app.run serves every request in a thread of its own, and the module     *)
(* takes no lock: a request is preempted between any two statements, and   *)
(* certainly while it waits for Unabated or for Kalshi.  A request is      *)
(* modelled by the statements of fetch_and_build_moneylines that read or   *)
(* write a module-level variable, followed by the handler's assignment to  *)
(* current_moneyline_rows.                                                 *)

MaxRequests == 2

Requests == 1..MaxRequests

\* Step 3 of fetch_and_build_moneylines on the locals games and event_probs
moneyline_rows(games, event_probs) ==
    fetch_and_build_moneylines(FALSE, FALSE, <<>>, <<>>, Some(games), event_probs).rows

\* the loop of Step 2 under refresh_kalshi: the exception that leaves it, if
\* any, and (as cache_event_probs) the event_probs it fills
kalshi_event_probs(games, answers) ==
    fetch_and_build_moneylines(FALSE, TRUE, <<>>, answers, Some(games), EmptyDict)

ServerGame(fairs) ==
    [id |-> 1,
     away_kalshi_ticker |-> EventTicker1 \o <<"AAA">>,
     home_kalshi_ticker |-> EventTicker1 \o <<"BBB">>,
     away_fair |-> fairs[1], home_fair |-> fairs[2], away_roto |-> Some(501)]

\* what Unabated may answer: no game today, or today's game with one of two
\* consensus prices
ServerSlates ==
    {<<>>,
     <<ServerGame(<<Some(44566), Some(55434)>>)>>,
     <<ServerGame(<<None, Some(55434)>>)>>}

\* what Kalshi may answer for the event
ServerAnswers == [{EventTicker1} -> Answers]

\* the module-level state after run_server's initial
\* fetch_and_build_moneylines(True, True); the server does not start when
\* that call raises
InitialFetch(slate, answers) ==
    fetch_and_build_moneylines(TRUE, TRUE, slate, answers, None, EmptyDict)

ServerStarted(initial) ==
    /\ initial.raised = NoError
    /\ cache_unabated = initial.cache_unabated
    /\ cache_event_probs = initial.cache_event_probs
    /\ current_moneyline_rows = initial.rows

NewRequest(kind) ==
    [kind |-> kind, pc |-> "start", games |-> <<>>, event_probs |-> EmptyDict,
     rows |-> <<>>]

InitServer ==
    /\ \E slate \in ServerSlates, answers \in ServerAnswers :
           ServerStarted(InitialFetch(slate, answers))
    /\ requests \in [Requests -> {NewRequest(kind) :
                                     kind \in {"refresh_kalshi", "refresh_unabated"}}]
    /\ rows_in = Idle /\ rows_out = Idle
    /\ SelIdle /\ FeeIdle /\ BookIdle /\ OddsIdle /\ LinesIdle /\ MatchIdle /\ PureIdle

ServerUnchanged ==
    UNCHANGED <<rows_in, rows_out, selVars, feeVars, bookVars, oddsVars, lineVars,
                matchVars, pureVars>>

\* Step 1, the read: what get_today_games_with_fairs_and_kalshi_tickers()
\* returns at that moment under refresh_unabated (cache_unabated is a list
\* from the initial fetch on), the cached games otherwise
ReadGames(t) ==
    /\ requests[t].pc = "start"
    /\ IF requests[t].kind = "refresh_unabated" \/ cache_unabated = None
       THEN \E slate \in ServerSlates :
               requests' = [requests EXCEPT ![t].games = slate,
                                            ![t].pc = "store_games"]
       ELSE requests' = [requests EXCEPT ![t].games = Val(cache_unabated),
                                         ![t].pc = "read_event_probs"]
    /\ UNCHANGED <<cache_unabated, cache_event_probs, current_moneyline_rows>>
    /\ ServerUnchanged

\* cache_unabated = games
StoreGames(t) ==
    /\ requests[t].pc = "store_games"
    /\ cache_unabated' = Some(requests[t].games)
    /\ requests' = [requests EXCEPT ![t].pc = "read_event_probs"]
    /\ UNCHANGED <<cache_event_probs, current_moneyline_rows>>
    /\ ServerUnchanged

\* `if not games: return []`, then
\* event_probs = {} if refresh_kalshi else cache_event_probs.copy()
ReadEventProbs(t) ==
    /\ requests[t].pc = "read_event_probs"
    /\ requests' = [requests EXCEPT ![t] =
           IF requests[t].games = <<>>
           THEN [@ EXCEPT !.rows = <<>>, !.pc = "return"]
           ELSE IF requests[t].kind = "refresh_kalshi"
           THEN [@ EXCEPT !.event_probs = EmptyDict, !.pc = "fetch_event_probs"]
           ELSE [@ EXCEPT !.event_probs = cache_event_probs, !.pc = "build"]]
    /\ UNCHANGED <<cache_unabated, cache_event_probs, current_moneyline_rows>>
    /\ ServerUnchanged

after_fetch(request, fetched) ==
    IF fetched.raised # NoError
    THEN [request EXCEPT !.pc = "done"]
    ELSE [request EXCEPT !.pc = "store_event_probs",
                         !.event_probs = fetched.cache_event_probs]

\* the loop over get_top_of_book_post_probs, on what Kalshi answers at that
\* moment; an exception leaves the
\* function and the handler answers 500 without assigning anything
FetchEventProbs(t) ==
    /\ requests[t].pc = "fetch_event_probs"
    /\ \E answers \in ServerAnswers :
           requests' = [requests EXCEPT ![t] =
               after_fetch(@, kalshi_event_probs(requests[t].games, answers))]
    /\ UNCHANGED <<cache_unabated, cache_event_probs, current_moneyline_rows>>
    /\ ServerUnchanged

\* cache_event_probs = event_probs.copy()
StoreEventProbs(t) ==
    /\ requests[t].pc = "store_event_probs"
    /\ cache_event_probs' = requests[t].event_probs
    /\ requests' = [requests EXCEPT ![t].pc = "build"]
    /\ UNCHANGED <<cache_unabated, current_moneyline_rows>>
    /\ ServerUnchanged

\* Step 3, on the locals only
BuildRows(t) ==
    /\ requests[t].pc = "build"
    /\ requests' = [requests EXCEPT ![t] =
           [@ EXCEPT !.pc = "return",
                     !.rows = moneyline_rows(requests[t].games, requests[t].event_probs)]]
    /\ UNCHANGED <<cache_unabated, cache_event_probs, current_moneyline_rows>>
    /\ ServerUnchanged

\* the handler: current_moneyline_rows = fetch_and_build_moneylines(...)
AssignRows(t) ==
    /\ requests[t].pc = "return"
    /\ current_moneyline_rows' = requests[t].rows
    /\ requests' = [requests EXCEPT ![t].pc = "done"]
    /\ UNCHANGED <<cache_unabated, cache_event_probs>>
    /\ ServerUnchanged

NextServer ==
    \/ \E t \in Requests : ReadGames(t)
    \/ \E t \in Requests : StoreGames(t)
    \/ \E t \in Requests : ReadEventProbs(t)
    \/ \E t \in Requests : FetchEventProbs(t)
    \/ \E t \in Requests : StoreEventProbs(t)
    \/ \E t \in Requests : BuildRows(t)
    \/ \E t \in Requests : AssignRows(t)

SpecServer == InitServer /\ [][NextServer]_vars

AllRequestsDone == \A t \in Requests : requests[t].pc = "done"

\* C26: whatever the interleaving of the /refresh-kalshi and
\* /refresh-unabated requests, once every request has completed
\* current_moneyline_rows is the row list built from the final
\* cache_unabated and cache_event_probs.
C26_RowsMatchCaches ==
    AllRequestsDone =>
        current_moneyline_rows =
            moneyline_rows(Val(cache_unabated), cache_event_probs)

====
